---- MODULE Spec2Model ----
(***************************************************************************)
(* Session memory subsystem of rag_server (src/session_manager.py).        *)
(*                                                                         *)
(* The sqlite `sessions` table is the function `sessions` from session id  *)
(* to a row; a row keeps the indexed columns (project_name, created_at,    *)
(* last_used, status) next to `data`, the JSON document of the whole       *)
(* aggregate.  get_session reads only `data`; get_latest_session,          *)
(* cleanup_old_sessions and get_stats read only the columns.               *)
(*                                                                         *)
(* time.time() is the variable `now`, counted in days.  It never goes      *)
(* back, and two calls may read the same value (the test suite sleeps      *)
(* between two create_session calls to get different timestamps).  Every   *)
(* time.time() call of one operation reads the same value.                 *)
(*                                                                         *)
(* uuid.uuid4() is a fresh number: `nextSid` for session ids, `nextId` for *)
(* message, key moment, compressed period, snapshot and symbol ids.        *)
(***************************************************************************)
EXTENDS Integers, Sequences, FiniteSets, TLC

(***************************************************************************)
(* Bounds of the model.                                                    *)
(***************************************************************************)
MaxNow == 120
TickDays == 30
MaxSessions == 2
MaxUuid == 5
MaxMaxMessages == 2
MaxCompressionThreshold == 3
MaxKeyMoments == 2
\* The sliding-window specification runs one session for a shorter time.
MaxWindowSessions == 1
MaxWindowNow == 60
\* The lifecycle specification adds few messages and key moments.
MaxLifeUuid == 1
\* Rows of file_snapshots.
MaxSnapshots == 2
MaxSnippets == 1
\* Concurrent callers, and the uuids their calls draw.
MaxCallers == 2
\* Entries of the response cache.
MaxCacheSize == 2
MaxRaceUuid == 2
MaxWindowRaceUuid == 6

Projects == {"p1", "p2"}
\* The sliding-window specification uses one project.
WindowProjects == {"p1"}
Roles == {"user", "assistant"}
DaysThresholds == {0, 30, 100}

VARIABLES
    now,                    \* time.time(), in days
    max_messages,           \* SessionManager.max_messages
    compression_threshold,  \* SessionManager.compression_threshold
    sessions,               \* table sessions: id -> row
    nextSid,                \* next uuid4 for a session
    nextId,                 \* next uuid4 for anything else
    added,                  \* history: successful add_message calls per stored session
    file_snapshots,         \* table file_snapshots, in insertion order
    code_symbols,           \* table code_symbols, in insertion order
    code_snippets,          \* table code_snippets, in insertion order
    first_snapshot,         \* history: <<file_path, content>> -> id its first save returned
    probe,                  \* a session handed to _compress_session, and the session after
    calls,                  \* per caller: the frame of its call between get_session and _save_session
    cache,                  \* rag_server.cache: the entries in insertion order
    cache_config,           \* rag_server.cache_config: enabled, max_size, ttl
    last                    \* the last call: [op, sid, res]

artifacts == <<file_snapshots, code_symbols, code_snippets, first_snapshot>>

vars == <<now, max_messages, compression_threshold, sessions, nextSid, nextId,
          added, file_snapshots, code_symbols, code_snippets, first_snapshot, probe, calls, cache, cache_config, last>>

(***************************************************************************)
(* Python values.                                                          *)
(***************************************************************************)
\* Optional[T]: None is the empty sequence, a value x is <<x>>.
None == <<>>

Some(x) == <<x>>

\* Optional[str] of get_latest_session: session ids start at 1.
NoId == 0

Min(a, b) == IF a <= b THEN a ELSE b

\* list.sort(key=...) / sorted(...): stable; Before is the strict order of the keys.
StableSort(s, Before(_, _)) ==
    LET n == Len(s)
        Pos(i) == 1 + Cardinality({j \in 1..n :
                        \/ Before(s[j], s[i])
                        \/ (j < i /\ ~Before(s[i], s[j]))})
    IN  [p \in 1..n |-> s[CHOOSE i \in 1..n : Pos(i) = p]]

(***************************************************************************)
(* Enumerations and tables.                                                *)
(***************************************************************************)
SessionStatus ==
    [ACTIVE |-> "active", ARCHIVED |-> "archived", CLOSED |-> "closed"]

KeyMomentType ==
    [ERROR_SOLVED |-> "error_solved", FEATURE_COMPLETED |-> "feature_completed",
     CONFIG_CHANGED |-> "config_changed", BREAKTHROUGH |-> "breakthrough",
     FILE_CREATED |-> "file_created", DEPLOYMENT |-> "deployment",
     IMPORTANT_DECISION |-> "important_decision", REFACTORING |-> "refactoring"]

MOMENT_IMPORTANCE ==
    [BREAKTHROUGH |-> 9, ERROR_SOLVED |-> 8, DEPLOYMENT |-> 8,
     FEATURE_COMPLETED |-> 7, IMPORTANT_DECISION |-> 7, CONFIG_CHANGED |-> 6,
     REFACTORING |-> 6, FILE_CREATED |-> 5]

\* Enum(value): the member whose value is v.
EnumOf(enum, v) == CHOOSE m \in DOMAIN enum : enum[m] = v

\* importance=None of add_key_moment
NoImportance == -1

\* The (moment_type, importance, related_messages) triples the model passes to
\* add_key_moment; related_messages are message ids, never looked up.
MomentInputs ==
    {<<"BREAKTHROUGH", NoImportance, <<>>>>, <<"FILE_CREATED", NoImportance, <<>>>>,
     <<"FILE_CREATED", 9, <<1>>>>, <<"REFACTORING", 11, <<>>>>}

(***************************************************************************)
(* Session.to_dict / Session.from_dict (with KeyMoment.to_dict/from_dict). *)
(***************************************************************************)
KeyMomentToDict(km) == [km EXCEPT !.type = KeyMomentType[km.type]]

KeyMomentFromDict(d) == [d EXCEPT !.type = EnumOf(KeyMomentType, d.type)]

ToDict(session) ==
    [session EXCEPT
        !.status = SessionStatus[session.status],
        !.key_moments = [i \in 1..Len(session.key_moments) |->
                            KeyMomentToDict(session.key_moments[i])]]

FromDict(data) ==
    [data EXCEPT
        !.status = EnumOf(SessionStatus, data.status),
        !.key_moments = [i \in 1..Len(data.key_moments) |->
                            KeyMomentFromDict(data.key_moments[i])]]

\* cache_config.get('enabled', True), .get('max_size', 1000), .get('ttl', 3600)
DefaultCacheConfig == [enabled |-> TRUE, max_size |-> 1000, ttl |-> 3600]

\* The callers whose calls may interleave, and the state with no call in flight.
Callers == 1..MaxCallers

NoCalls == [w \in Callers |-> None]

(***************************************************************************)
(* Store access.                                                           *)
(***************************************************************************)
\* Get-or-create: an unknown id yields a blank session instead of None.
Mutant_GetSession(session_id) ==
    IF session_id \in DOMAIN sessions
    THEN Some(FromDict(sessions[session_id].data))
    ELSE Some([id |-> session_id, project_name |-> "p1", created_at |-> now,
               last_used |-> now, status |-> "ACTIVE", messages |-> <<>>,
               key_moments |-> <<>>, compressed_history |-> <<>>])

\* SELECT data FROM sessions WHERE id = ?
GetSession(session_id) ==
    IF session_id \in DOMAIN sessions
    THEN Some(FromDict(sessions[session_id].data))
    ELSE None

\* INSERT OR REPLACE INTO sessions: the table after saving `session`.
SaveSession(session) ==
    LET row == [project_name |-> session.project_name,
                created_at   |-> session.created_at,
                last_used    |-> session.last_used,
                status       |-> SessionStatus[session.status],
                data         |-> ToDict(session)]
    IN  [x \in DOMAIN sessions \cup {session.id} |->
            IF x = session.id THEN row ELSE sessions[x]]

(***************************************************************************)
(* _compress_session                                                       *)
(***************************************************************************)
\* _generate_summary: the counts the summary text is built from.
GenerateSummary(messages) ==
    [requests |-> Cardinality({i \in 1..Len(messages) : messages[i].role = "user"}),
     answers  |-> Cardinality({i \in 1..Len(messages) : messages[i].role = "assistant"})]

\* The sort key is negated: the newest messages come first.
Mutant_MessageAfter(a, b) == -a.timestamp < -b.timestamp

MessageBefore(a, b) == a.timestamp < b.timestamp

\* The sort key is negated: latest period first.
Mutant_PeriodAfter(a, b) == -a.start_time < -b.start_time

PeriodBefore(a, b) == a.start_time < b.start_time

\* Explicit linkage counts too: a moment that names related messages is taken.
RECURSIVE Mutant_PeriodKeyMoments(_, _, _)
Mutant_PeriodKeyMoments(key_moments, start_time, end_time) ==
    IF key_moments = <<>> THEN <<>>
    ELSE (IF \/ /\ start_time <= Head(key_moments).timestamp
                /\ Head(key_moments).timestamp <= end_time
             \/ Head(key_moments).related_messages # <<>>
          THEN <<Head(key_moments).id>> ELSE <<>>)
            \o Mutant_PeriodKeyMoments(Tail(key_moments), start_time, end_time)

\* [km.id for km in key_moments if start_time <= km.timestamp <= end_time]
RECURSIVE PeriodKeyMoments(_, _, _)
PeriodKeyMoments(key_moments, start_time, end_time) ==
    IF key_moments = <<>> THEN <<>>
    ELSE (IF start_time <= Head(key_moments).timestamp
             /\ Head(key_moments).timestamp <= end_time
          THEN <<Head(key_moments).id>> ELSE <<>>)
            \o PeriodKeyMoments(Tail(key_moments), start_time, end_time)

\* session.messages.sort(key=lambda x: x.timestamp)
SortedMessages(session) == StableSort(session.messages, MessageBefore)

\* The period describes the whole window, not the evicted batch.
Mutant_MessagesToCompress(session) == SortedMessages(session)

\* messages_to_compress = session.messages[:self.compression_threshold]
MessagesToCompress(session) ==
    SubSeq(SortedMessages(session), 1,
           Min(compression_threshold, Len(session.messages)))

\* Off by one: the slice keeps the last message of the evicted batch.
Mutant_RemainingMessages(session) ==
    SubSeq(SortedMessages(session),
           Min(compression_threshold, Len(session.messages)),
           Len(session.messages))

\* session.messages = session.messages[self.compression_threshold:]
RemainingMessages(session) ==
    SubSeq(SortedMessages(session),
           Min(compression_threshold, Len(session.messages)) + 1,
           Len(session.messages))

\* message_count is the configured batch size, not the size of the batch.
Mutant_NewCompressedPeriod(session, period_id) ==
    LET messages_to_compress == MessagesToCompress(session)
        start_time == messages_to_compress[1].timestamp
        end_time == messages_to_compress[Len(messages_to_compress)].timestamp
    IN  [id |-> period_id,
         start_time |-> start_time,
         end_time |-> end_time,
         summary |-> GenerateSummary(messages_to_compress),
         message_count |-> compression_threshold,
         key_moments |-> PeriodKeyMoments(session.key_moments, start_time, end_time)]

\* The CompressedPeriod built from the evicted messages.
NewCompressedPeriod(session, period_id) ==
    LET messages_to_compress == MessagesToCompress(session)
        start_time == messages_to_compress[1].timestamp
        end_time == messages_to_compress[Len(messages_to_compress)].timestamp
    IN  [id |-> period_id,
         start_time |-> start_time,
         end_time |-> end_time,
         summary |-> GenerateSummary(messages_to_compress),
         message_count |-> Len(messages_to_compress),
         key_moments |-> PeriodKeyMoments(session.key_moments, start_time, end_time)]

\* The key moments outside the time window [start_time, end_time].
RECURSIVE KeyMomentsOutside(_, _, _)
KeyMomentsOutside(key_moments, start_time, end_time) ==
    IF key_moments = <<>> THEN <<>>
    ELSE (IF start_time <= Head(key_moments).timestamp
             /\ Head(key_moments).timestamp <= end_time
          THEN <<>> ELSE <<Head(key_moments)>>)
            \o KeyMomentsOutside(Tail(key_moments), start_time, end_time)

\* Compression moves the key moments of the evicted window out of the session.
Mutant_CompressSession(session, period_id) ==
    IF Len(session.messages) <= max_messages THEN session
    ELSE IF MessagesToCompress(session) = <<>>
         THEN [session EXCEPT !.messages = RemainingMessages(session)]
         ELSE [session EXCEPT
                  !.messages = RemainingMessages(session),
                  !.key_moments =
                      KeyMomentsOutside(session.key_moments,
                                        NewCompressedPeriod(session, period_id).start_time,
                                        NewCompressedPeriod(session, period_id).end_time),
                  !.compressed_history =
                      StableSort(Append(session.compressed_history,
                                        NewCompressedPeriod(session, period_id)),
                                 PeriodBefore)]

\* The early return tests < instead of <=: a full window is compressed.
Mutant_CompressSession_Guard(session, period_id) ==
    IF Len(session.messages) < max_messages THEN session
    ELSE IF MessagesToCompress(session) = <<>>
         THEN [session EXCEPT !.messages = RemainingMessages(session)]
         ELSE [session EXCEPT
                  !.messages = RemainingMessages(session),
                  !.compressed_history =
                      StableSort(Append(session.compressed_history,
                                        NewCompressedPeriod(session, period_id)),
                                 PeriodBefore)]

\* The new period replaces the compressed history instead of joining it.
Mutant_CompressSession_History(session, period_id) ==
    IF Len(session.messages) <= max_messages THEN session
    ELSE IF MessagesToCompress(session) = <<>>
         THEN [session EXCEPT !.messages = RemainingMessages(session)]
         ELSE [session EXCEPT
                  !.messages = RemainingMessages(session),
                  !.compressed_history = <<NewCompressedPeriod(session, period_id)>>]

\* The session after _compress_session; period_id is the uuid4 of the period.
CompressSession(session, period_id) ==
    IF Len(session.messages) <= max_messages THEN session
    ELSE IF MessagesToCompress(session) = <<>>
         THEN [session EXCEPT !.messages = RemainingMessages(session)]
         ELSE [session EXCEPT
                  !.messages = RemainingMessages(session),
                  !.compressed_history =
                      StableSort(Append(session.compressed_history,
                                        NewCompressedPeriod(session, period_id)),
                                 PeriodBefore)]

(***************************************************************************)
(* Operations of SessionManager.                                           *)
(***************************************************************************)
\* A call that returned has raised nothing.
NoException == ""

\* A call that returned res.
Call(op, sid, res) == [op |-> op, sid |-> sid, res |-> res, raised |-> NoException]

\* A call that an exception left: there is no result.
Raise(op, sid, exception) == [op |-> op, sid |-> sid, res |-> None, raised |-> exception]

Tick ==
    /\ now + TickDays <= MaxNow
    /\ now' = now + TickDays
    /\ last' = Call("tick", NoId, None)
    /\ UNCHANGED <<artifacts, probe, calls, cache, cache_config, max_messages, compression_threshold, sessions, nextSid,
                   nextId, added>>

\* The session id is not drawn afresh: every session is stored under id 1.
Mutant_CreateSession(project_name) ==
    /\ nextSid <= MaxSessions
    /\ LET session == [id |-> 1,
                       project_name |-> project_name,
                       created_at |-> now,
                       last_used |-> now,
                       status |-> "ACTIVE",
                       messages |-> <<>>,
                       key_moments |-> <<>>,
                       compressed_history |-> <<>>]
       IN  /\ sessions' = SaveSession(session)
           /\ added' = [x \in DOMAIN sessions' |-> IF x = 1 THEN 0 ELSE added[x]]
    /\ nextSid' = nextSid + 1
    /\ last' = Call("create_session", 1, 1)
    /\ UNCHANGED <<artifacts, probe, calls, cache, cache_config, now, max_messages, compression_threshold, nextId>>

CreateSession(project_name) ==
    /\ nextSid <= MaxSessions
    /\ LET session == [id |-> nextSid,
                       project_name |-> project_name,
                       created_at |-> now,
                       last_used |-> now,
                       status |-> "ACTIVE",
                       messages |-> <<>>,
                       key_moments |-> <<>>,
                       compressed_history |-> <<>>]
       IN  /\ sessions' = SaveSession(session)
           /\ added' = [x \in DOMAIN sessions' |-> IF x = nextSid THEN 0 ELSE added[x]]
    /\ nextSid' = nextSid + 1
    /\ last' = Call("create_session", nextSid, nextSid)
    /\ UNCHANGED <<artifacts, probe, calls, cache, cache_config, now, max_messages, compression_threshold, nextId>>

AddMessage(session_id, role) ==
    /\ nextId + 1 <= MaxUuid
    /\ LET got == GetSession(session_id) IN
       IF got = None
       THEN /\ last' = Call("add_message", session_id, FALSE)
            /\ UNCHANGED <<sessions, nextId, added>>
       ELSE
         LET session == got[1]
             message == [id |-> nextId, timestamp |-> now, role |-> role]
             appended == [session EXCEPT !.messages = Append(session.messages, message),
                                         !.last_used = now]
             compress == Len(appended.messages) > max_messages
             saved == IF compress THEN CompressSession(appended, nextId + 1) ELSE appended
             new_period == Len(saved.compressed_history) > Len(session.compressed_history)
         IN  /\ sessions' = SaveSession(saved)
             /\ nextId' = nextId + (IF new_period THEN 2 ELSE 1)
             /\ added' = [added EXCEPT ![session_id] = @ + 1]
             /\ last' = Call("add_message", session_id, TRUE)
    /\ UNCHANGED <<artifacts, probe, calls, cache, cache_config, now, max_messages, compression_threshold, nextSid>>

KeyMomentBefore(a, b) ==
    \/ -a.importance < -b.importance
    \/ (a.importance = b.importance /\ -a.timestamp < -b.timestamp)

\* The sort key lost its minus signs: ascending importance and timestamp.
Mutant_KeyMomentAfter(a, b) ==
    \/ a.importance < b.importance
    \/ (a.importance = b.importance /\ a.timestamp < b.timestamp)

Mutant_SortKeyMoments(key_moments) == StableSort(key_moments, Mutant_KeyMomentAfter)

\* session.key_moments.sort(key=lambda x: (-x.importance, -x.timestamp))
SortKeyMoments(key_moments) == StableSort(key_moments, KeyMomentBefore)

\* The table is not consulted: every omitted importance becomes 5.
Mutant_DefaultImportance(moment_type, importance) ==
    IF importance = NoImportance THEN 5 ELSE importance

\* importance = MOMENT_IMPORTANCE.get(moment_type, 5) when importance is None
DefaultImportance(moment_type, importance) ==
    IF importance = NoImportance
    THEN (IF moment_type \in DOMAIN MOMENT_IMPORTANCE
          THEN MOMENT_IMPORTANCE[moment_type] ELSE 5)
    ELSE importance

CountKeyMoments ==
    LET RECURSIVE Sum(_)
        Sum(S) == IF S = {} THEN 0
                  ELSE LET x == CHOOSE y \in S : TRUE
                       IN  Len(sessions[x].data.key_moments) + Sum(S \ {x})
    IN  Sum(DOMAIN sessions)

AddKeyMoment(session_id, moment_type, importance, related_messages) ==
    /\ nextId <= MaxUuid
    /\ CountKeyMoments < MaxKeyMoments
    /\ LET got == GetSession(session_id) IN
       IF got = None
       THEN /\ last' = Call("add_key_moment", session_id, FALSE)
            /\ UNCHANGED <<sessions, nextId>>
       ELSE
         LET session == got[1]
             key_moment == [id |-> nextId,
                            timestamp |-> now,
                            type |-> moment_type,
                            importance |-> DefaultImportance(moment_type, importance),
                            related_messages |-> related_messages]
             saved == [session EXCEPT
                          !.key_moments = SortKeyMoments(Append(session.key_moments, key_moment)),
                          !.last_used = now]
         IN  /\ sessions' = SaveSession(saved)
             /\ nextId' = nextId + 1
             /\ last' = Call("add_key_moment", session_id, TRUE)
    /\ UNCHANGED <<artifacts, probe, calls, cache, cache_config, now, max_messages, compression_threshold, nextSid, added>>

\* The status is set but last_used is not touched.
Mutant_ArchiveSession(session_id) ==
    /\ LET got == GetSession(session_id) IN
       IF got = None
       THEN /\ last' = Call("archive_session", session_id, FALSE)
            /\ UNCHANGED sessions
       ELSE
         LET session == got[1]
             saved == [session EXCEPT !.status = "ARCHIVED"]
         IN  /\ sessions' = SaveSession(saved)
             /\ last' = Call("archive_session", session_id, TRUE)
    /\ UNCHANGED <<artifacts, probe, calls, cache, cache_config, now, max_messages, compression_threshold, nextSid,
                   nextId, added>>

ArchiveSession(session_id) ==
    /\ LET got == GetSession(session_id) IN
       IF got = None
       THEN /\ last' = Call("archive_session", session_id, FALSE)
            /\ UNCHANGED sessions
       ELSE
         LET session == got[1]
             saved == [session EXCEPT !.status = "ARCHIVED", !.last_used = now]
         IN  /\ sessions' = SaveSession(saved)
             /\ last' = Call("archive_session", session_id, TRUE)
    /\ UNCHANGED <<artifacts, probe, calls, cache, cache_config, now, max_messages, compression_threshold, nextSid,
                   nextId, added>>

\* UPDATE sessions SET status = 'archived' WHERE last_used < ? AND status = 'active'
ArchivePhase(table, threshold_time) ==
    [x \in DOMAIN table |->
        IF table[x].last_used < threshold_time /\ table[x].status = SessionStatus.ACTIVE
        THEN [table[x] EXCEPT !.status = SessionStatus.ARCHIVED]
        ELSE table[x]]

\* The comparison is <= : a session idle for exactly the threshold is deleted.
Mutant_DeletePhase(table, very_old_threshold) ==
    LET kept == {x \in DOMAIN table :
                    ~(table[x].last_used <= very_old_threshold
                      /\ table[x].status = SessionStatus.ARCHIVED)}
    IN  [x \in kept |-> table[x]]

\* DELETE FROM sessions WHERE last_used < ? AND status = 'archived'
DeletePhase(table, very_old_threshold) ==
    LET kept == {x \in DOMAIN table :
                    ~(table[x].last_used < very_old_threshold
                      /\ table[x].status = SessionStatus.ARCHIVED)}
    IN  [x \in kept |-> table[x]]

VeryOldDays == 90

\* The DELETE cascades to the file_snapshots rows of the deleted sessions.
Mutant_CleanupOldSessions(days_threshold) ==
    LET threshold_time == now - days_threshold
        archived == ArchivePhase(sessions, threshold_time)
        archived_count == Cardinality({x \in DOMAIN sessions :
                                          archived[x].status # sessions[x].status})
        very_old_threshold == now - VeryOldDays
        swept == DeletePhase(archived, very_old_threshold)
        deleted_count == Cardinality(DOMAIN archived \ DOMAIN swept)
        Kept(row) == row.session_id \notin DOMAIN archived \ DOMAIN swept
    IN  /\ sessions' = swept
        /\ added' = [x \in DOMAIN swept |-> added[x]]
        /\ file_snapshots' = SelectSeq(file_snapshots, Kept)
        /\ last' = Call("cleanup_old_sessions", days_threshold,
                        <<archived_count, deleted_count>>)
        /\ UNCHANGED <<code_symbols, code_snippets, first_snapshot, probe, calls, cache, cache_config, now,
                       max_messages, compression_threshold, nextSid, nextId>>

CleanupOldSessions(days_threshold) ==
    LET threshold_time == now - days_threshold
        archived == ArchivePhase(sessions, threshold_time)
        archived_count == Cardinality({x \in DOMAIN sessions :
                                          archived[x].status # sessions[x].status})
        very_old_threshold == now - VeryOldDays
        swept == DeletePhase(archived, very_old_threshold)
        deleted_count == Cardinality(DOMAIN archived \ DOMAIN swept)
    IN  /\ sessions' = swept
        /\ added' = [x \in DOMAIN swept |-> added[x]]
        /\ last' = Call("cleanup_old_sessions", days_threshold,
                        <<archived_count, deleted_count>>)
        /\ UNCHANGED <<artifacts, probe, calls, cache, cache_config, now, max_messages, compression_threshold, nextSid, nextId>>

\* The query lost its status filter.
Mutant_LatestSessions(project_name) ==
    LET rows == {x \in DOMAIN sessions : sessions[x].project_name = project_name}
    IN  {x \in rows : \A y \in rows : sessions[y].last_used <= sessions[x].last_used}

\* The rows get_latest_session may return: ORDER BY last_used DESC LIMIT 1 has
\* no tie-break, so any row with the largest last_used can come first.
LatestSessions(project_name) ==
    LET rows == {x \in DOMAIN sessions :
                    /\ sessions[x].project_name = project_name
                    /\ sessions[x].status = SessionStatus.ACTIVE}
    IN  {x \in rows : \A y \in rows : sessions[y].last_used <= sessions[x].last_used}

GetLatestSession(project_name) ==
    /\ \E result \in (IF LatestSessions(project_name) = {} THEN {NoId}
                      ELSE LatestSessions(project_name)) :
          last' = Call("get_latest_session", project_name, result)
    /\ UNCHANGED <<artifacts, probe, calls, cache, cache_config, now, max_messages, compression_threshold, sessions,
                   nextSid, nextId, added>>

GetSessionCall(session_id) ==
    /\ last' = Call("get_session", session_id, GetSession(session_id))
    /\ UNCHANGED <<artifacts, probe, calls, cache, cache_config, now, max_messages, compression_threshold, sessions,
                   nextSid, nextId, added>>

\* [:20] and [-50:] of get_session_context
TopKeyMoments == 20

RecentMessages == 50

\* datetime.fromtimestamp(t).isoformat(): a text, not the number.
IsoFormat(t) == <<"iso", t>>

\* The slice takes the oldest messages: [:50].
Mutant_RecentSlice(by_time) == SubSeq(by_time, 1, Min(RecentMessages, Len(by_time)))

\* sorted(session.messages, key=lambda x: x.timestamp)[-50:]
RecentSlice(by_time) ==
    SubSeq(by_time,
           IF Len(by_time) > RecentMessages THEN Len(by_time) - RecentMessages + 1 ELSE 1,
           Len(by_time))

\* get_session_context: None, or the projection of the stored session.
GetSessionContext(session_id) ==
    LET got == GetSession(session_id) IN
    IF got = None THEN None
    ELSE
      LET session == got[1]
          ranked == StableSort(session.key_moments, KeyMomentBefore)
          by_time == StableSort(session.messages, MessageBefore)
          top_key_moments == SubSeq(ranked, 1, Min(TopKeyMoments, Len(ranked)))
          recent_messages == RecentSlice(by_time)
      IN  Some([session_id |-> session.id,
                project_name |-> session.project_name,
                created_at |-> IsoFormat(session.created_at),
                last_used |-> IsoFormat(session.last_used),
                status |-> SessionStatus[session.status],
                recent_messages |-> recent_messages,
                key_moments |-> [i \in 1..Len(top_key_moments) |->
                                    KeyMomentToDict(top_key_moments[i])],
                compressed_history |->
                    [i \in 1..Len(session.compressed_history) |->
                        [period |-> <<"range", session.compressed_history[i].start_time,
                                      session.compressed_history[i].end_time>>,
                         summary |-> session.compressed_history[i].summary]],
                stats |-> [total_messages |-> Len(session.messages),
                           total_key_moments |-> Len(session.key_moments),
                           compressed_periods |-> Len(session.compressed_history)]])

\* Reading the context counts as a use: the session is saved with a new last_used.
Mutant_GetSessionContextCall(session_id) ==
    /\ last' = Call("get_session_context", session_id, GetSessionContext(session_id))
    /\ sessions' = IF GetSession(session_id) = None THEN sessions
                   ELSE SaveSession([GetSession(session_id)[1] EXCEPT !.last_used = now])
    /\ UNCHANGED <<artifacts, probe, calls, cache, cache_config, now, max_messages, compression_threshold,
                   nextSid, nextId, added>>

GetSessionContextCall(session_id) ==
    /\ last' = Call("get_session_context", session_id, GetSessionContext(session_id))
    /\ UNCHANGED <<artifacts, probe, calls, cache, cache_config, now, max_messages, compression_threshold, sessions,
                   nextSid, nextId, added>>

\* COUNT(project_name) without DISTINCT: one project per session.
Mutant_GetStats ==
    LET statuses == {sessions[x].status : x \in DOMAIN sessions}
    IN  [total_sessions |-> Cardinality(DOMAIN sessions),
         unique_projects |-> Cardinality(DOMAIN sessions),
         status_distribution |->
             [st \in statuses |->
                 Cardinality({x \in DOMAIN sessions : sessions[x].status = st})]]

\* get_stats: three SELECTs over the columns of the sessions table.
GetStats ==
    LET statuses == {sessions[x].status : x \in DOMAIN sessions}
    IN  [total_sessions |-> Cardinality(DOMAIN sessions),
         unique_projects |-> Cardinality({sessions[x].project_name : x \in DOMAIN sessions}),
         status_distribution |->
             [st \in statuses |->
                 Cardinality({x \in DOMAIN sessions : sessions[x].status = st})]]

GetStatsCall ==
    /\ last' = Call("get_stats", NoId, GetStats)
    /\ UNCHANGED <<artifacts, probe, calls, cache, cache_config, now, max_messages, compression_threshold, sessions,
                   nextSid, nextId, added>>

(***************************************************************************)
(* Code artifacts: file snapshots and the symbols parsed from them.        *)
(***************************************************************************)
\* The file contents the model saves.
Contents == {"def f(): pass", "def f(:", "function g() {}"}

FilePaths == {"a.py", "b.js"}

\* The language arguments the model passes; "" is the default (detect it).
Languages == {"", "python"}

\* hashlib.sha256(content.encode('utf-8')).hexdigest(), first 8 digits
Sha256(content) ==
    CASE content = "def f(): pass"   -> "3c70e068"
      [] content = "def f(:"         -> "c9d1775a"
      [] content = "function g() {}" -> "09f0df9b"

\* Path(file_path).suffix.lower()
Suffix(file_path) ==
    CASE file_path = "a.py" -> ".py"
      [] file_path = "b.js" -> ".js"
      [] OTHER -> ""

language_map ==
    [x \in {".py"} |-> "python"] @@ [x \in {".js", ".jsx"} |-> "javascript"] @@
    [x \in {".ts", ".tsx"} |-> "typescript"] @@
    (".php" :> "php") @@ (".go" :> "go") @@ (".rs" :> "rust") @@ (".java" :> "java") @@
    (".cpp" :> "cpp") @@ (".c" :> "c") @@ (".cs" :> "csharp") @@ (".rb" :> "ruby") @@
    (".vue" :> "vue") @@ (".html" :> "html") @@ (".css" :> "css") @@ (".scss" :> "scss") @@
    (".sass" :> "sass") @@ (".sql" :> "sql") @@ (".sh" :> "bash") @@ (".yaml" :> "yaml") @@
    (".yml" :> "yaml") @@ (".json" :> "json") @@ (".xml" :> "xml") @@ (".md" :> "markdown")

DetectLanguage(file_path) ==
    IF Suffix(file_path) \in DOMAIN language_map
    THEN language_map[Suffix(file_path)] ELSE "text"

Decl(symbol_type, name) == [symbol_type |-> symbol_type, name |-> name]

\* The parser recovers from the syntax error and reports the unfinished def.
Mutant_ParsePythonAst(content) ==
    CASE content = "def f(): pass"   -> <<Decl("function", "f")>>
      [] content = "def f(:"         -> <<Decl("function", "f")>>
      [] content = "function g() {}" -> <<>>

\* _parse_python_ast: the FunctionDef/ClassDef nodes of ast.parse(content), in
\* ast.walk order; a SyntaxError is caught and leaves no symbol.
ParsePythonAst(content) ==
    CASE content = "def f(): pass"   -> <<Decl("function", "f")>>
      [] content = "def f(:"         -> <<>>
      [] content = "function g() {}" -> <<>>

\* _parse_javascript_ast: the lines matching the function, arrow or class pattern.
ParseJavascriptAst(content) ==
    CASE content = "def f(): pass"   -> <<>>
      [] content = "def f(:"         -> <<>>
      [] content = "function g() {}" -> <<Decl("function", "g")>>

\* parse_ast_symbols with _save_code_symbol: the code_symbols rows it inserts;
\* the i-th row gets the id first_id + i - 1.
ParseAstSymbols(file_snapshot_id, content, language, first_id) ==
    LET decls == IF language = "python" THEN ParsePythonAst(content)
                 ELSE IF language \in {"javascript", "typescript"}
                      THEN ParseJavascriptAst(content)
                      ELSE <<>>
        symbol_language == IF language = "python" THEN "python" ELSE "javascript"
    IN  [i \in 1..Len(decls) |->
            [id |-> first_id + i - 1,
             file_snapshot_id |-> file_snapshot_id,
             symbol_type |-> decls[i].symbol_type,
             name |-> decls[i].name,
             language |-> symbol_language,
             timestamp |-> now]]

\* The lookup compares the content column with the hash: it never matches.
Mutant_ExistingSnapshots(file_path, content_hash) ==
    LET rows == {i \in 1..Len(file_snapshots) :
                    /\ file_snapshots[i].file_path = file_path
                    /\ file_snapshots[i].content = content_hash}
    IN  {file_snapshots[i].id : i \in
            {i \in rows : \A j \in rows :
                file_snapshots[j].timestamp <= file_snapshots[i].timestamp}}

\* SELECT id FROM file_snapshots WHERE file_path = ? AND content_hash = ?
\* ORDER BY timestamp DESC LIMIT 1: the ids that can be the first row.
ExistingSnapshots(file_path, content_hash) ==
    LET rows == {i \in 1..Len(file_snapshots) :
                    /\ file_snapshots[i].file_path = file_path
                    /\ file_snapshots[i].content_hash = content_hash}
    IN  {file_snapshots[i].id : i \in
            {i \in rows : \A j \in rows :
                file_snapshots[j].timestamp <= file_snapshots[i].timestamp}}

\* The history of first saves after a call that returned id.
RecordFirst(file_path, content, id) ==
    IF <<file_path, content>> \in DOMAIN first_snapshot THEN first_snapshot
    ELSE first_snapshot @@ (<<file_path, content>> :> id)

SaveFileSnapshot(session_id, file_path, content, language) ==
    LET content_hash == Sha256(content)
        existing == ExistingSnapshots(file_path, content_hash)
        args == <<session_id, file_path, content, language>>
    IN
    /\ IF existing # {}
       THEN /\ \E id \in existing :
                 /\ last' = Call("save_file_snapshot", args, id)
                 /\ first_snapshot' = RecordFirst(file_path, content, id)
            /\ UNCHANGED <<file_snapshots, code_symbols, nextId>>
       ELSE
         LET snapshot_id == nextId
             lang == IF language = "" THEN DetectLanguage(file_path) ELSE language
             row == [id |-> snapshot_id,
                     file_path |-> file_path,
                     content |-> content,
                     content_hash |-> content_hash,
                     language |-> lang,
                     timestamp |-> now,
                     session_id |-> session_id]
             symbols == IF lang \in {"python", "javascript", "typescript"}
                        THEN ParseAstSymbols(snapshot_id, content, lang, nextId + 1)
                        ELSE <<>>
         IN  /\ Len(file_snapshots) < MaxSnapshots
             /\ file_snapshots' = Append(file_snapshots, row)
             /\ code_symbols' = code_symbols \o symbols
             /\ nextId' = nextId + 1 + Len(symbols)
             /\ first_snapshot' = RecordFirst(file_path, content, snapshot_id)
             /\ last' = Call("save_file_snapshot", args, snapshot_id)
    /\ UNCHANGED <<now, max_messages, compression_threshold, sessions, nextSid, added,
                   code_snippets, probe, calls, cache, cache_config>>

\* SELECT language FROM file_snapshots WHERE id = ?: fetchone() of the lookup,
\* "" when no row has the id.
SnapshotLanguage(file_snapshot_id) ==
    IF \E i \in 1..Len(file_snapshots) : file_snapshots[i].id = file_snapshot_id
    THEN file_snapshots[CHOOSE i \in 1..Len(file_snapshots) :
                            file_snapshots[i].id = file_snapshot_id].language
    ELSE ""

CreateCodeSnippet(file_snapshot_id, content, start_line, end_line) ==
    LET snippet_id == nextId
        row == [id |-> snippet_id,
                file_snapshot_id |-> file_snapshot_id,
                content |-> content,
                language |-> SnapshotLanguage(file_snapshot_id),
                start_line |-> start_line,
                end_line |-> end_line,
                timestamp |-> now]
    IN  /\ Len(code_snippets) < MaxSnippets
        /\ code_snippets' = Append(code_snippets, row)
        /\ nextId' = nextId + 1
        /\ last' = Call("create_code_snippet",
                        <<file_snapshot_id, content, start_line, end_line>>, snippet_id)
        /\ UNCHANGED <<now, max_messages, compression_threshold, sessions, nextSid, added,
                       file_snapshots, code_symbols, first_snapshot, probe, calls, cache, cache_config>>

\* The rows of file_snapshots a history query selects.
HistoryRows(file_path) ==
    {i \in 1..Len(file_snapshots) : file_snapshots[i].file_path = file_path}

\* One dictionary of the history list.
HistoryEntry(row) ==
    [snapshot_id |-> row.id,
     content_hash |-> row.content_hash,
     size_bytes |-> Len(row.content),
     timestamp |-> row.timestamp]

\* The query orders the rows by ascending timestamp.
Mutant_GetFileHistory(file_path) ==
    LET rows == HistoryRows(file_path)
        n == Cardinality(rows)
        orders == {o \in [1..n -> rows] :
                      /\ \A a, b \in 1..n : a # b => o[a] # o[b]
                      /\ \A a, b \in 1..n : a < b =>
                            file_snapshots[o[a]].timestamp <= file_snapshots[o[b]].timestamp}
    IN  {[k \in 1..n |-> HistoryEntry(file_snapshots[o[k]])] : o \in orders}

\* SELECT ... WHERE file_path = ? ORDER BY timestamp DESC: the lists the query
\* can return; rows of one timestamp come in any order.
GetFileHistory(file_path) ==
    LET rows == HistoryRows(file_path)
        n == Cardinality(rows)
        orders == {o \in [1..n -> rows] :
                      /\ \A a, b \in 1..n : a # b => o[a] # o[b]
                      /\ \A a, b \in 1..n : a < b =>
                            file_snapshots[o[a]].timestamp >= file_snapshots[o[b]].timestamp}
    IN  {[k \in 1..n |-> HistoryEntry(file_snapshots[o[k]])] : o \in orders}

GetFileHistoryCall(file_path) ==
    /\ \E history \in GetFileHistory(file_path) :
          last' = Call("get_file_history", file_path, history)
    /\ UNCHANGED <<now, max_messages, compression_threshold, sessions, nextSid, nextId,
                   added, artifacts, probe, calls, cache, cache_config>>

(***************************************************************************)
(* auto_detect_key_moments.  Texts are strings; the keyword lists keep the *)
(* English words of the source: its Russian words cannot match an ASCII    *)
(* text, and the texts of the model are ASCII.                             *)
(***************************************************************************)
UpperLetters == "ABCDEFGHIJKLMNOPQRSTUVWXYZ"

LowerLetters == "abcdefghijklmnopqrstuvwxyz"

\* str.lower() of one character
LowerChar(ch) ==
    IF \E i \in 1..Len(UpperLetters) : SubSeq(UpperLetters, i, i) = ch
    THEN LET i == CHOOSE i \in 1..Len(UpperLetters) : SubSeq(UpperLetters, i, i) = ch
         IN  SubSeq(LowerLetters, i, i)
    ELSE ch

\* message_content.lower()
RECURSIVE Lower(_)
Lower(text) ==
    IF Len(text) = 0 THEN ""
    ELSE LowerChar(SubSeq(text, 1, 1)) \o Lower(SubSeq(text, 2, Len(text)))

\* word in text: substring test
Contains(text, word) ==
    \E i \in 1..(Len(text) - Len(word) + 1) : SubSeq(text, i, i + Len(word) - 1) = word

\* any(word in content_lower for word in keywords)
ContainsAny(text, keywords) == \E word \in keywords : Contains(text, word)

error_keywords == {"error", "fix", "solved", "resolved", "bug", "issue", "problem"}

creation_actions == {"create", "write", "add"}

completion_keywords == {"completed", "finished", "done", "implemented", "ready", "success"}

config_keywords == {"config", "settings", "yaml", "json", "configuration"}

refactoring_keywords == {"refactor", "refactored", "restructure", "optimize", "optimized"}

decision_keywords == {"decided", "decision", "choice", "selected", "approach"}

\* message_content[:200]
Prefix200(message_content) ==
    SubSeq(message_content, 1, Min(200, Len(message_content)))

\* The tuple appended for a category: its type, the file its title names (if
\* any) and the text its summary quotes.
Candidate(moment_type, file, message_content) ==
    [type |-> moment_type, file |-> file, content |-> Prefix200(message_content)]

\* An action counts when it contains a creation word, as a keyword does.
Mutant_CreationDetected(actions, files) ==
    /\ \E i \in 1..Len(actions) : ContainsAny(actions[i], creation_actions)
    /\ files # <<>>

\* any(action in actions for action in creation_actions) and files
CreationDetected(actions, files) ==
    /\ \E i \in 1..Len(actions) : actions[i] \in creation_actions
    /\ files # <<>>

\* any(word in content_lower for word in config_keywords) and files
ConfigDetected(content_lower, files) ==
    /\ ContainsAny(content_lower, config_keywords)
    /\ files # <<>>

\* The creation check runs first.
Mutant_AutoDetectKeyMoments(message_content, actions, files) ==
    LET content_lower == Lower(message_content) IN
    (IF CreationDetected(actions, files)
     THEN <<Candidate("FILE_CREATED", Some(files[1]), message_content)>> ELSE <<>>)
    \o (IF ContainsAny(content_lower, error_keywords)
        THEN <<Candidate("ERROR_SOLVED", None, message_content)>> ELSE <<>>)
    \o (IF ContainsAny(content_lower, completion_keywords)
        THEN <<Candidate("FEATURE_COMPLETED", None, message_content)>> ELSE <<>>)
    \o (IF ConfigDetected(content_lower, files)
        THEN <<Candidate("CONFIG_CHANGED", Some(files[1]), message_content)>> ELSE <<>>)
    \o (IF ContainsAny(content_lower, refactoring_keywords)
        THEN <<Candidate("REFACTORING", None, message_content)>> ELSE <<>>)
    \o (IF ContainsAny(content_lower, decision_keywords)
        THEN <<Candidate("IMPORTANT_DECISION", None, message_content)>> ELSE <<>>)

AutoDetectKeyMoments(message_content, actions, files) ==
    LET content_lower == Lower(message_content) IN
    (IF ContainsAny(content_lower, error_keywords)
     THEN <<Candidate("ERROR_SOLVED", None, message_content)>> ELSE <<>>)
    \o (IF CreationDetected(actions, files)
        THEN <<Candidate("FILE_CREATED", Some(files[1]), message_content)>> ELSE <<>>)
    \o (IF ContainsAny(content_lower, completion_keywords)
        THEN <<Candidate("FEATURE_COMPLETED", None, message_content)>> ELSE <<>>)
    \o (IF ConfigDetected(content_lower, files)
        THEN <<Candidate("CONFIG_CHANGED", Some(files[1]), message_content)>> ELSE <<>>)
    \o (IF ContainsAny(content_lower, refactoring_keywords)
        THEN <<Candidate("REFACTORING", None, message_content)>> ELSE <<>>)
    \o (IF ContainsAny(content_lower, decision_keywords)
        THEN <<Candidate("IMPORTANT_DECISION", None, message_content)>> ELSE <<>>)

AutoDetectCall(message_content, actions, files) ==
    /\ last' = Call("auto_detect_key_moments", <<message_content, actions, files>>,
                    AutoDetectKeyMoments(message_content, actions, files))
    /\ UNCHANGED <<artifacts, probe, calls, cache, cache_config, now, max_messages, compression_threshold, sessions,
                   nextSid, nextId, added>>

(***************************************************************************)
(* _compress_session called on a session aggregate.                        *)
(***************************************************************************)
CompressCall ==
    /\ probe # None
    /\ Len(probe) = 1
    /\ probe' = <<probe[1], CompressSession(probe[1], nextId)>>
    /\ last' = Call("compress", probe[1].id, None)
    /\ UNCHANGED <<now, max_messages, compression_threshold, sessions, nextSid, nextId,
                   added, artifacts, calls, cache, cache_config>>

(***************************************************************************)
(* Spec: the sliding window of a session (messages, compression, key       *)
(* moments) under calls on stored sessions.                                *)
(***************************************************************************)
Init ==
    /\ now = 0
    /\ max_messages \in 1..MaxMaxMessages
    /\ compression_threshold \in 1..MaxCompressionThreshold
    /\ sessions = <<>>
    /\ nextSid = 1
    /\ nextId = 1
    /\ added = <<>>
    /\ file_snapshots = <<>>
    /\ code_symbols = <<>>
    /\ code_snippets = <<>>
    /\ first_snapshot = <<>>
    /\ probe = None
    /\ calls = NoCalls
    /\ cache = <<>>
    /\ cache_config = DefaultCacheConfig
    /\ last = Call("init", NoId, None)

Next ==
    \/ (now < MaxWindowNow /\ Tick)
    \/ \E p \in WindowProjects : nextSid <= MaxWindowSessions /\ CreateSession(p)
    \/ \E s \in DOMAIN sessions, r \in Roles : AddMessage(s, r)
    \/ \E s \in DOMAIN sessions, m \in MomentInputs : AddKeyMoment(s, m[1], m[2], m[3])
    \/ \E s \in DOMAIN sessions : ArchiveSession(s)

Spec == Init /\ [][Next]_vars

(***************************************************************************)
(* LifeSpec: the lifecycle of the sessions of a store (create, archive,    *)
(* retention sweep, lookups), with calls on stored, deleted and unknown    *)
(* session ids.  The window is never full here.                            *)
(***************************************************************************)
\* Session ids a caller may pass: every id handed out so far and one never handed out.
SessionIds == 1..nextSid

LifeInit ==
    /\ now = 0
    /\ max_messages = MaxMaxMessages
    /\ compression_threshold = MaxCompressionThreshold
    /\ sessions = <<>>
    /\ nextSid = 1
    /\ nextId = 1
    /\ added = <<>>
    /\ file_snapshots = <<>>
    /\ code_symbols = <<>>
    /\ code_snippets = <<>>
    /\ first_snapshot = <<>>
    /\ probe = None
    /\ calls = NoCalls
    /\ cache = <<>>
    /\ cache_config = DefaultCacheConfig
    /\ last = Call("init", NoId, None)

LifeNext ==
    \/ Tick
    \/ \E p \in Projects : CreateSession(p)
    \/ \E s \in SessionIds : nextId <= MaxLifeUuid /\ AddMessage(s, "user")
    \/ \E s \in SessionIds : nextId <= MaxLifeUuid /\ AddKeyMoment(s, "BREAKTHROUGH", NoImportance, <<>>)
    \/ \E s \in SessionIds : ArchiveSession(s)
    \/ \E d \in DaysThresholds : CleanupOldSessions(d)
    \/ \E p \in Projects : GetLatestSession(p)
    \/ \E s \in SessionIds : GetSessionCall(s)
    \/ \E s \in SessionIds : GetSessionContextCall(s)
    \/ GetStatsCall

LifeSpec == LifeInit /\ [][LifeNext]_vars

(***************************************************************************)
(* SnapSpec: the code artifact index.                                      *)
(***************************************************************************)
SnapNext ==
    \/ (now < MaxWindowNow /\ Tick)
    \/ \E p \in WindowProjects : nextSid <= MaxWindowSessions /\ CreateSession(p)
    \/ \E s \in SessionIds : nextId <= MaxLifeUuid /\ AddMessage(s, "user")
    \/ \E s \in SessionIds, f \in FilePaths, c \in Contents, l \in Languages :
          SaveFileSnapshot(s, f, c, l)
    \/ \E s \in SessionIds : GetSessionContextCall(s)
    \/ GetStatsCall
    \/ \E f \in FilePaths : GetFileHistoryCall(f)

SnapSpec == LifeInit /\ [][SnapNext]_vars

(***************************************************************************)
(* ArtifactSpec: artifact rows, snippets and the retention sweep.          *)
(***************************************************************************)
ArtifactContents == {"def f(): pass", "function g() {}"}

\* Snapshot ids a caller may pass: every uuid handed out so far and one never handed out.
SnapshotIds == 1..nextId

ArtifactNext ==
    \/ Tick
    \/ \E p \in WindowProjects : nextSid <= MaxWindowSessions /\ CreateSession(p)
    \/ \E s \in SessionIds, c \in ArtifactContents : SaveFileSnapshot(s, "a.py", c, "")
    \/ \E f \in SnapshotIds : CreateCodeSnippet(f, "pass", 1, 1)
    \/ \E d \in DaysThresholds : CleanupOldSessions(d)
    \/ GetFileHistoryCall("a.py")

ArtifactSpec == LifeInit /\ [][ArtifactNext]_vars

(***************************************************************************)
(* RaceSpec: add_message, add_key_moment and archive_session as two steps, *)
(* the get_session that loads the aggregate and the rest of the call up to *)
(* _save_session, taken by callers whose steps interleave.  The sweep is   *)
(* one transaction.  A frame also records, as history, the status column   *)
(* at the time of the load and the ids that other callers saved into the   *)
(* same session since.                                                     *)
(***************************************************************************)
Frame(op, session_id, session, arg) ==
    [op |-> op, session_id |-> session_id, session |-> session, arg |-> arg,
     column |-> sessions[session_id].status, overlapped |-> {}]

\* The calls in flight that will draw a uuid.
Drawing == {w \in Callers : calls[w] # None /\ calls[w][1].op # "archive_session"}

\* The frames after caller w returned from a call that saved `ids` into session_id.
Returned(w, session_id, ids) ==
    [v \in Callers |->
        IF v = w THEN None
        ELSE IF calls[v] # None /\ calls[v][1].session_id = session_id
             THEN Some([calls[v][1] EXCEPT !.overlapped = @ \cup ids])
             ELSE calls[v]]

\* session = self.get_session(session_id); if not session: return False
LoadSession(w, op, session_id, arg) ==
    /\ calls[w] = None
    /\ LET got == GetSession(session_id) IN
       IF got = None
       THEN /\ last' = Call(op, session_id, FALSE)
            /\ UNCHANGED calls
       ELSE /\ calls' = [calls EXCEPT ![w] = Some(Frame(op, session_id, got[1], arg))]
            /\ UNCHANGED last
    /\ UNCHANGED <<artifacts, probe, cache, cache_config, now, max_messages, compression_threshold, sessions,
                   nextSid, nextId, added>>

\* The history of successful add_message calls after a save into session_id.
AddedAfter(table, session_id, count) ==
    [x \in DOMAIN table |->
        (IF x \in DOMAIN added THEN added[x] ELSE 0) + (IF x = session_id THEN count ELSE 0)]

AddMessageRead(w, session_id, role) == LoadSession(w, "add_message", session_id, role)

\* The call loads the stored session again before it appends and saves.
Mutant_AddMessageSave(w) ==
    /\ calls[w] # None
    /\ calls[w][1].op = "add_message"
    /\ calls[w][1].session_id \in DOMAIN sessions
    /\ LET session == GetSession(calls[w][1].session_id)[1]
           message == [id |-> nextId, timestamp |-> now, role |-> calls[w][1].arg]
           saved == [session EXCEPT !.messages = Append(session.messages, message),
                                    !.last_used = now]
       IN  /\ sessions' = SaveSession(saved)
           /\ nextId' = nextId + 1
           /\ added' = AddedAfter(sessions', session.id, 1)
           /\ calls' = Returned(w, session.id, {message.id})
           /\ last' = Call("add_message", session.id, TRUE)
    /\ UNCHANGED <<artifacts, probe, cache, cache_config, now, max_messages, compression_threshold, nextSid>>

\* add_message from the append to the return.
AddMessageSave(w) ==
    /\ calls[w] # None
    /\ calls[w][1].op = "add_message"
    /\ LET session == calls[w][1].session
           message == [id |-> nextId, timestamp |-> now, role |-> calls[w][1].arg]
           appended == [session EXCEPT !.messages = Append(session.messages, message),
                                       !.last_used = now]
           compress == Len(appended.messages) > max_messages
           saved == IF compress THEN CompressSession(appended, nextId + 1) ELSE appended
           new_period == Len(saved.compressed_history) > Len(session.compressed_history)
       IN  /\ sessions' = SaveSession(saved)
           /\ nextId' = nextId + (IF new_period THEN 2 ELSE 1)
           /\ added' = AddedAfter(sessions', session.id, 1)
           /\ calls' = Returned(w, session.id, {message.id})
           /\ last' = Call("add_message", session.id, TRUE)
    /\ UNCHANGED <<artifacts, probe, cache, cache_config, now, max_messages, compression_threshold, nextSid>>

AddKeyMomentRead(w, session_id, moment_type, importance) ==
    LoadSession(w, "add_key_moment", session_id, <<moment_type, importance>>)

\* The key moment is appended and the list is saved unsorted.
Mutant_AddKeyMomentSave(w) ==
    /\ calls[w] # None
    /\ calls[w][1].op = "add_key_moment"
    /\ LET session == calls[w][1].session
           key_moment == [id |-> nextId,
                          timestamp |-> now,
                          type |-> calls[w][1].arg[1],
                          importance |-> DefaultImportance(calls[w][1].arg[1],
                                                           calls[w][1].arg[2]),
                          related_messages |-> <<>>]
           saved == [session EXCEPT
                        !.key_moments = Append(session.key_moments, key_moment),
                        !.last_used = now]
       IN  /\ sessions' = SaveSession(saved)
           /\ nextId' = nextId + 1
           /\ added' = AddedAfter(sessions', session.id, 0)
           /\ calls' = Returned(w, session.id, {key_moment.id})
           /\ last' = Call("add_key_moment", session.id, TRUE)
    /\ UNCHANGED <<artifacts, probe, cache, cache_config, now, max_messages,
                   compression_threshold, nextSid>>

\* add_key_moment from the construction of the key moment to the return.
AddKeyMomentSave(w) ==
    /\ calls[w] # None
    /\ calls[w][1].op = "add_key_moment"
    /\ LET session == calls[w][1].session
           key_moment == [id |-> nextId,
                          timestamp |-> now,
                          type |-> calls[w][1].arg[1],
                          importance |-> DefaultImportance(calls[w][1].arg[1],
                                                           calls[w][1].arg[2]),
                          related_messages |-> <<>>]
           saved == [session EXCEPT
                        !.key_moments = SortKeyMoments(Append(session.key_moments, key_moment)),
                        !.last_used = now]
       IN  /\ sessions' = SaveSession(saved)
           /\ nextId' = nextId + 1
           /\ added' = AddedAfter(sessions', session.id, 0)
           /\ calls' = Returned(w, session.id, {key_moment.id})
           /\ last' = Call("add_key_moment", session.id, TRUE)
    /\ UNCHANGED <<artifacts, probe, cache, cache_config, now, max_messages, compression_threshold, nextSid>>

ArchiveSessionRead(w, session_id) == LoadSession(w, "archive_session", session_id, None)

\* archive_session from the status assignment to the return.
ArchiveSessionSave(w) ==
    /\ calls[w] # None
    /\ calls[w][1].op = "archive_session"
    /\ LET session == calls[w][1].session
           saved == [session EXCEPT !.status = "ARCHIVED", !.last_used = now]
       IN  /\ sessions' = SaveSession(saved)
           /\ added' = AddedAfter(sessions', session.id, 0)
           /\ calls' = Returned(w, session.id, {})
           /\ last' = Call("archive_session", session.id, TRUE)
    /\ UNCHANGED <<artifacts, probe, cache, cache_config, now, max_messages, compression_threshold, nextSid,
                   nextId>>

RaceNext ==
    \/ Tick
    \/ \E p \in WindowProjects : nextSid <= MaxWindowSessions /\ CreateSession(p)
    \/ \E w \in Callers, s \in SessionIds :
          nextId + Cardinality(Drawing) <= MaxRaceUuid /\ AddMessageRead(w, s, "user")
    \/ \E w \in Callers : AddMessageSave(w)
    \/ \E w \in Callers, s \in SessionIds :
          /\ nextId + Cardinality(Drawing) <= MaxRaceUuid
          /\ AddKeyMomentRead(w, s, "BREAKTHROUGH", NoImportance)
    \/ \E w \in Callers : AddKeyMomentSave(w)
    \/ \E w \in Callers, s \in SessionIds : ArchiveSessionRead(w, s)
    \/ \E w \in Callers : ArchiveSessionSave(w)
    \/ CleanupOldSessions(0)

RaceSpec == LifeInit /\ [][RaceNext]_vars

(***************************************************************************)
(* WindowRaceSpec: interleaved add_message and add_key_moment calls on one *)
(* session whose window is one message long, so that the calls compress.   *)
(***************************************************************************)
RaceMoments == {<<"BREAKTHROUGH", NoImportance>>, <<"REFACTORING", NoImportance>>}

WindowRaceInit ==
    /\ now = 0
    /\ max_messages = 1
    /\ compression_threshold \in 1..2
    /\ sessions = <<>>
    /\ nextSid = 1
    /\ nextId = 1
    /\ added = <<>>
    /\ file_snapshots = <<>>
    /\ code_symbols = <<>>
    /\ code_snippets = <<>>
    /\ first_snapshot = <<>>
    /\ probe = None
    /\ calls = NoCalls
    /\ cache = <<>>
    /\ cache_config = DefaultCacheConfig
    /\ last = Call("init", NoId, None)

\* A call in flight draws at most two uuids: a message and a period.
WindowRaceNext ==
    \/ (now < TickDays /\ Tick)
    \/ \E p \in WindowProjects : nextSid <= MaxWindowSessions /\ CreateSession(p)
    \/ \E w \in Callers, s \in DOMAIN sessions :
          /\ nextId + 2 * Cardinality(Drawing) + 1 <= MaxWindowRaceUuid
          /\ AddMessageRead(w, s, "user")
    \/ \E w \in Callers : AddMessageSave(w)
    \/ \E w \in Callers, s \in DOMAIN sessions, m \in RaceMoments :
          /\ nextId + 2 * Cardinality(Drawing) + 1 <= MaxWindowRaceUuid
          /\ AddKeyMomentRead(w, s, m[1], m[2])
    \/ \E w \in Callers : AddKeyMomentSave(w)

WindowRaceSpec == WindowRaceInit /\ [][WindowRaceNext]_vars

(***************************************************************************)
(* SnapRaceSpec: save_file_snapshot as two steps, the SELECT that looks    *)
(* for a row of the path and hash, and the rest of the call from the       *)
(* INSERT on, taken by callers whose steps interleave.  The SELECT runs    *)
(* outside a transaction; the table has no UNIQUE constraint.              *)
(***************************************************************************)
SnapshotFrame(session_id, file_path, content, language) ==
    [op |-> "save_file_snapshot", session_id |-> session_id, session |-> None,
     arg |-> <<file_path, content, language>>, column |-> "", overlapped |-> {}]

\* save_file_snapshot up to `if existing: return existing[0]`
SaveFileSnapshotCheck(w, session_id, file_path, content, language) ==
    LET existing == ExistingSnapshots(file_path, Sha256(content))
        args == <<session_id, file_path, content, language>>
    IN
    /\ calls[w] = None
    /\ IF existing # {}
       THEN /\ \E id \in existing :
                 /\ last' = Call("save_file_snapshot", args, id)
                 /\ first_snapshot' = RecordFirst(file_path, content, id)
            /\ UNCHANGED calls
       ELSE /\ calls' = [calls EXCEPT ![w] =
                            Some(SnapshotFrame(session_id, file_path, content, language))]
            /\ UNCHANGED <<last, first_snapshot>>
    /\ UNCHANGED <<now, max_messages, compression_threshold, sessions, nextSid, nextId,
                   added, file_snapshots, code_symbols, code_snippets, probe, cache,
                   cache_config>>

\* save_file_snapshot from the new uuid to the return.
SaveFileSnapshotInsert(w) ==
    /\ calls[w] # None
    /\ calls[w][1].op = "save_file_snapshot"
    /\ LET session_id == calls[w][1].session_id
           file_path == calls[w][1].arg[1]
           content == calls[w][1].arg[2]
           language == calls[w][1].arg[3]
           snapshot_id == nextId
           lang == IF language = "" THEN DetectLanguage(file_path) ELSE language
           row == [id |-> snapshot_id,
                   file_path |-> file_path,
                   content |-> content,
                   content_hash |-> Sha256(content),
                   language |-> lang,
                   timestamp |-> now,
                   session_id |-> session_id]
           symbols == IF lang \in {"python", "javascript", "typescript"}
                      THEN ParseAstSymbols(snapshot_id, content, lang, nextId + 1)
                      ELSE <<>>
       IN  /\ file_snapshots' = Append(file_snapshots, row)
           /\ code_symbols' = code_symbols \o symbols
           /\ nextId' = nextId + 1 + Len(symbols)
           /\ first_snapshot' = RecordFirst(file_path, content, snapshot_id)
           /\ calls' = [calls EXCEPT ![w] = None]
           /\ last' = Call("save_file_snapshot",
                           <<session_id, file_path, content, language>>, snapshot_id)
    /\ UNCHANGED <<now, max_messages, compression_threshold, sessions, nextSid, added,
                   code_snippets, probe, cache, cache_config>>

\* The calls in flight that will insert a file_snapshots row.
Inserting == {w \in Callers : calls[w] # None /\ calls[w][1].op = "save_file_snapshot"}

SnapRaceNext ==
    \/ (now < TickDays /\ Tick)
    \/ \E p \in WindowProjects : nextSid <= MaxWindowSessions /\ CreateSession(p)
    \/ \E w \in Callers, s \in SessionIds, f \in FilePaths, c \in ArtifactContents :
          /\ Len(file_snapshots) + Cardinality(Inserting) < MaxSnapshots
          /\ SaveFileSnapshotCheck(w, s, f, c, "")
    \/ \E w \in Callers : SaveFileSnapshotInsert(w)
    \/ \E f \in FilePaths : GetFileHistoryCall(f)

SnapRaceSpec == LifeInit /\ [][SnapRaceNext]_vars

(***************************************************************************)
(* FaultSpec: calls during which the store fails.  sqlite3.connect,        *)
(* execute or commit raises sqlite3.Error; nothing of the call is          *)
(* committed.  What the caller sees depends on the handler of the call.    *)
(***************************************************************************)
\* The operations and whether their body runs inside try/except Exception.
CoreOperations ==
    [create_session |-> FALSE,
     add_message |-> FALSE,
     add_key_moment |-> TRUE,
     archive_session |-> FALSE,
     cleanup_old_sessions |-> FALSE]

\* A call of operation op with argument arg during which the store fails.
StorageFailure(op, arg) ==
    /\ last' = IF CoreOperations[op] THEN Call(op, arg, FALSE)
                ELSE Raise(op, arg, "sqlite3.OperationalError")
    /\ UNCHANGED <<artifacts, probe, calls, cache, cache_config, now, max_messages, compression_threshold,
                   sessions, nextSid, nextId, added>>

FaultNext ==
    \/ Tick
    \/ \E p \in WindowProjects : nextSid <= MaxWindowSessions /\ CreateSession(p)
    \/ \E s \in SessionIds : nextId <= MaxLifeUuid /\ AddMessage(s, "user")
    \/ \E s \in SessionIds : nextId <= MaxLifeUuid /\ AddKeyMoment(s, "BREAKTHROUGH", NoImportance, <<>>)
    \/ \E s \in SessionIds : ArchiveSession(s)
    \/ \E d \in DaysThresholds : CleanupOldSessions(d)
    \/ \E op \in {"add_message", "add_key_moment", "archive_session"}, s \in SessionIds :
          StorageFailure(op, s)
    \/ \E p \in WindowProjects : StorageFailure("create_session", p)
    \/ \E d \in DaysThresholds : StorageFailure("cleanup_old_sessions", d)

FaultSpec == LifeInit /\ [][FaultNext]_vars

(***************************************************************************)
(* The response cache of rag_server: a dict from cache key to data and     *)
(* timestamp, kept here as the list of its entries in insertion order.     *)
(***************************************************************************)
\* The position of cache_key in the dict, 0 when it is not a key.
CacheIndex(cache_key) ==
    IF \E i \in 1..Len(cache) : cache[i].key = cache_key
    THEN CHOOSE i \in 1..Len(cache) : cache[i].key = cache_key
    ELSE 0

\* The entry evicted is the one with the newest timestamp.
Mutant_OldestKey(entries) ==
    entries[CHOOSE i \in 1..Len(entries) :
                /\ \A j \in 1..Len(entries) : entries[j].timestamp <= entries[i].timestamp
                /\ \A j \in 1..(i - 1) : entries[j].timestamp # entries[i].timestamp].key

\* min(cache.keys(), key=lambda k: cache[k]['timestamp']): the first key, in
\* insertion order, among those of the least timestamp.
OldestKey(entries) ==
    entries[CHOOSE i \in 1..Len(entries) :
                /\ \A j \in 1..Len(entries) : entries[i].timestamp <= entries[j].timestamp
                /\ \A j \in 1..(i - 1) : entries[j].timestamp # entries[i].timestamp].key

\* del cache[cache_key]
DelKey(entries, cache_key) ==
    LET Other(entry) == entry.key # cache_key IN SelectSeq(entries, Other)

\* cache[cache_key] = value: a present key keeps its place in the dict.
SetKey(entries, cache_key, value) ==
    LET entry == [key |-> cache_key, data |-> value.data, timestamp |-> value.timestamp]
    IN  IF \E i \in 1..Len(entries) : entries[i].key = cache_key
        THEN [i \in 1..Len(entries) |->
                 IF entries[i].key = cache_key THEN entry ELSE entries[i]]
        ELSE Append(entries, entry)

GetCachedResponse(cache_key) ==
    /\ IF ~cache_config.enabled
       THEN /\ last' = Call("get_cached_response", cache_key, None)
            /\ UNCHANGED cache
       ELSE IF CacheIndex(cache_key) # 0
            THEN LET cached_data == cache[CacheIndex(cache_key)] IN
                 IF now - cached_data.timestamp < cache_config.ttl
                 THEN /\ last' = Call("get_cached_response", cache_key,
                                      Some(cached_data.data))
                      /\ UNCHANGED cache
                 ELSE /\ cache' = DelKey(cache, cache_key)
                      /\ last' = Call("get_cached_response", cache_key, None)
            ELSE /\ last' = Call("get_cached_response", cache_key, None)
                 /\ UNCHANGED cache
    /\ UNCHANGED <<artifacts, probe, calls, cache_config, now, max_messages,
                   compression_threshold, sessions, nextSid, nextId, added>>

SetCachedResponse(cache_key, response) ==
    /\ IF ~cache_config.enabled
       THEN UNCHANGED cache
       ELSE LET max_size == cache_config.max_size
                room == IF Len(cache) >= max_size
                        THEN DelKey(cache, OldestKey(cache))
                        ELSE cache
            IN  cache' = SetKey(room, cache_key, [data |-> response, timestamp |-> now])
    /\ last' = Call("set_cached_response", <<cache_key, response>>, None)
    /\ UNCHANGED <<artifacts, probe, calls, cache_config, now, max_messages,
                   compression_threshold, sessions, nextSid, nextId, added>>

\* DELETE /cache
ClearCache ==
    /\ cache' = <<>>
    /\ last' = Call("clear_cache", NoId, None)
    /\ UNCHANGED <<artifacts, probe, calls, cache_config, now, max_messages,
                   compression_threshold, sessions, nextSid, nextId, added>>

CacheKeys == {"q1:all", "q1:vue", "q2:all"}

Responses == {"r1", "r2"}

\* The configurations of the cache: on or off, max_size up to MaxCacheSize,
\* a ttl of one or two ticks.
CacheConfigs ==
    [enabled : BOOLEAN, max_size : 1..MaxCacheSize, ttl : {TickDays, 2 * TickDays}]

CacheInit ==
    /\ now = 0
    /\ max_messages = MaxMaxMessages
    /\ compression_threshold = MaxCompressionThreshold
    /\ sessions = <<>>
    /\ nextSid = 1
    /\ nextId = 1
    /\ added = <<>>
    /\ file_snapshots = <<>>
    /\ code_symbols = <<>>
    /\ code_snippets = <<>>
    /\ first_snapshot = <<>>
    /\ probe = None
    /\ calls = NoCalls
    /\ cache = <<>>
    /\ cache_config \in CacheConfigs
    /\ last = Call("init", NoId, None)

CacheNext ==
    \/ Tick
    \/ \E k \in CacheKeys : GetCachedResponse(k)
    \/ \E k \in CacheKeys, r \in Responses : SetCachedResponse(k, r)
    \/ ClearCache

CacheSpec == CacheInit /\ [][CacheNext]_vars

(***************************************************************************)
(* get_or_create_session of rag_server.  A project name or session id that *)
(* is None or empty is "" or NoId here, and so is a result of None.        *)
(***************************************************************************)
\* The session create_session(project_name) stores under the next uuid.
NewSession(project_name) ==
    [id |-> nextSid,
     project_name |-> project_name,
     created_at |-> now,
     last_used |-> now,
     status |-> "ACTIVE",
     messages |-> <<>>,
     key_moments |-> <<>>,
     compressed_history |-> <<>>]

\* The project of a new session is always the one passed, also when it is empty.
Mutant_CreatedProject(project_name) == project_name

\* create_session(project_name) if project_name, else create_session("anonymous")
CreatedProject(project_name) == IF project_name # "" THEN project_name ELSE "anonymous"

GetOrCreateSession(project_name, session_id) ==
    LET args == <<project_name, session_id>>
        found == session_id # NoId /\ GetSession(session_id) # None
        latest == IF project_name # "" THEN LatestSessions(project_name) ELSE {}
    IN
    /\ IF found
       THEN /\ last' = Call("get_or_create_session", args, session_id)
            /\ UNCHANGED <<sessions, added, nextSid>>
       ELSE IF latest # {}
            THEN /\ \E existing_session \in latest :
                      last' = Call("get_or_create_session", args, existing_session)
                 /\ UNCHANGED <<sessions, added, nextSid>>
            ELSE /\ nextSid <= MaxSessions
                 /\ sessions' = SaveSession(NewSession(CreatedProject(project_name)))
                 /\ added' = [x \in DOMAIN sessions' |-> IF x = nextSid THEN 0 ELSE added[x]]
                 /\ nextSid' = nextSid + 1
                 /\ last' = Call("get_or_create_session", args, nextSid)
    /\ UNCHANGED <<artifacts, probe, calls, cache, cache_config, now, max_messages,
                   compression_threshold, nextId>>

\* A call during which the store fails: the exception is caught, None is returned.
GetOrCreateSessionFailure(project_name, session_id) ==
    /\ last' = Call("get_or_create_session", <<project_name, session_id>>, NoId)
    /\ UNCHANGED <<artifacts, probe, calls, cache, cache_config, now, max_messages,
                   compression_threshold, sessions, nextSid, nextId, added>>

\* The project names a request can carry: none, or a name.
RequestProjects == {"", "p1"}

GetOrCreateNext ==
    \/ Tick
    \/ \E p \in RequestProjects \cup {"p2"} : CreateSession(p)
    \/ \E s \in SessionIds : ArchiveSession(s)
    \/ CleanupOldSessions(0)
    \/ \E p \in RequestProjects, s \in SessionIds \cup {NoId} : GetOrCreateSession(p, s)
    \/ \E p \in RequestProjects, s \in SessionIds \cup {NoId} :
          GetOrCreateSessionFailure(p, s)

GetOrCreateSpec == LifeInit /\ [][GetOrCreateNext]_vars

(***************************************************************************)
(* MomentSpec: add_key_moment with every moment type, with the importance  *)
(* omitted or passed, on one session.                                      *)
(***************************************************************************)
\* The importance arguments: omitted, below, inside and above 1..10.
ImportanceInputs == {NoImportance, 0, 3, 11}

MomentNext ==
    \/ (now < MaxWindowNow /\ Tick)
    \/ \E p \in WindowProjects : nextSid <= MaxWindowSessions /\ CreateSession(p)
    \/ \E s \in SessionIds, t \in DOMAIN KeyMomentType, i \in ImportanceInputs :
          AddKeyMoment(s, t, i, <<>>)

MomentSpec == LifeInit /\ [][MomentNext]_vars

(***************************************************************************)
(* ContextSpec: the read operations on a store of one session whose lists  *)
(* are shorter and longer than the slices get_session_context takes, under *)
(* the default configuration.                                              *)
(***************************************************************************)
\* max_messages: int = 200
DefaultMaxMessages == 200

\* self.compression_threshold = 50
DefaultCompressionThreshold == 50

\* List lengths around a slice length c.
ContextLens(c) == {0, 1, c - 1, c, c + 1, c + 2}

\* How the timestamps of n messages added in this order rise: not at all, by
\* one per message, by one per two messages.
ContextMessages(n) ==
    {[i \in 1..n |-> [id |-> i, timestamp |-> (i * step[1]) \div step[2], role |-> "user"]] :
        step \in {<<0, 1>>, <<1, 1>>, <<1, 2>>}}

\* n key moments in stored order (importance, then timestamp, descending):
\* one importance and falling timestamps, or two importances and one timestamp.
ContextKeyMoments(n) ==
    {[k \in 1..n |-> [id |-> 100 + k, timestamp |-> n - k, type |-> "FILE_CREATED",
                      importance |-> 5, related_messages |-> <<>>]],
     [k \in 1..n |-> [id |-> 100 + k, timestamp |-> 0, type |-> "FILE_CREATED",
                      importance |-> IF 2 * k <= n THEN 9 ELSE 5,
                      related_messages |-> <<>>]]}

ContextSessions ==
    {[id |-> 1, project_name |-> "p1", created_at |-> 0, last_used |-> 60,
      status |-> "ACTIVE", messages |-> m, key_moments |-> k,
      compressed_history |-> <<>>] :
        m \in UNION {ContextMessages(n) : n \in ContextLens(RecentMessages)},
        k \in UNION {ContextKeyMoments(n) : n \in ContextLens(TopKeyMoments)}}

ContextInit ==
    /\ now = 60
    /\ max_messages = DefaultMaxMessages
    /\ compression_threshold = DefaultCompressionThreshold
    /\ \E session \in ContextSessions :
          sessions = [x \in {session.id} |->
                        [project_name |-> session.project_name,
                         created_at   |-> session.created_at,
                         last_used    |-> session.last_used,
                         status       |-> SessionStatus[session.status],
                         data         |-> ToDict(session)]]
    /\ nextSid = 2
    /\ nextId = 200
    /\ added = [x \in {1} |-> Len(sessions[x].data.messages)]
    /\ file_snapshots = <<>>
    /\ code_symbols = <<>>
    /\ code_snippets = <<>>
    /\ first_snapshot = <<>>
    /\ probe = None
    /\ calls = NoCalls
    /\ cache = <<>>
    /\ cache_config = DefaultCacheConfig
    /\ last = Call("init", NoId, None)

ContextNext ==
    \/ \E s \in SessionIds : GetSessionContextCall(s)
    \/ GetStatsCall

ContextSpec == ContextInit /\ [][ContextNext]_vars

(***************************************************************************)
(* DetectSpec: auto_detect_key_moments on message texts with keywords of   *)
(* one family, of several and of none, as words, inside words and in upper *)
(* case, with and without creation actions and files.                      *)
(***************************************************************************)
DetectContents ==
    {"", "json",
     "Just a regular status update",
     "Just a regular message",
     "Fixed the bug in the authentication system",
     "Created new user service",
     "Successfully implemented the payment processing feature",
     "Updated database configuration settings",
     "Refactored the parser",
     "We decided to use sqlite",
     "A prefix was chosen",
     "ERROR in module",
     "Abandoned the plan",
     "Fixed config, refactored and done: decision made"}

DetectActions == {<<>>, <<"create", "write">>, <<"fix_code">>, <<"create_file">>}

DetectFiles == {<<>>, <<"auth.py">>, <<"config.yaml", "b.js">>}

DetectNext ==
    \E c \in DetectContents, a \in DetectActions, f \in DetectFiles : AutoDetectCall(c, a, f)

DetectSpec == LifeInit /\ [][DetectNext]_vars

(***************************************************************************)
(* CompressSpec: _compress_session applied to session aggregates whose     *)
(* messages are in timestamp order, of every length up to MaxProbeLen.     *)
(***************************************************************************)
MaxProbeLen == 4

ProbeTimes == {0, 30, 60}

\* The message lists of length n with ids 1..n, in timestamp order.
ProbeMessages(n) ==
    {m \in [1..n -> [id : 1..n, timestamp : ProbeTimes, role : {"user"}]] :
        /\ \A i \in 1..n : m[i].id = i
        /\ \A i \in 1..n, k \in 1..n : i <= k => m[i].timestamp <= m[k].timestamp}

\* A key moment taken at any time, related to no message or to message 1.
ProbeMoments(id, moment_type) ==
    {[id |-> id, timestamp |-> t, type |-> moment_type,
      importance |-> MOMENT_IMPORTANCE[moment_type], related_messages |-> r] :
        t \in ProbeTimes, r \in {<<>>, <<1>>}}

\* No key moment, one, or two in (importance, timestamp) descending order.
ProbeKeyMoments ==
    {<<>>} \cup {<<a>> : a \in ProbeMoments(10, "BREAKTHROUGH")}
           \cup {<<a, b>> : a \in ProbeMoments(10, "BREAKTHROUGH"),
                            b \in ProbeMoments(11, "FILE_CREATED")}

\* No compressed period, or the period of one message evicted at time 0.
ProbeHistories ==
    {<<>>,
     <<[id |-> 15, start_time |-> 0, end_time |-> 0,
        summary |-> [requests |-> 1, answers |-> 0],
        message_count |-> 1, key_moments |-> <<>>]>>}

ProbeSessions ==
    {[id |-> 1, project_name |-> "p1", created_at |-> 0, last_used |-> 60,
      status |-> "ACTIVE", messages |-> m, key_moments |-> k,
      compressed_history |-> h] :
        m \in UNION {ProbeMessages(n) : n \in 0..MaxProbeLen}, k \in ProbeKeyMoments,
        h \in ProbeHistories}

CompressInit ==
    /\ now = 60
    /\ max_messages \in 1..MaxMaxMessages
    /\ compression_threshold \in 1..MaxCompressionThreshold
    /\ sessions = <<>>
    /\ nextSid = 2
    /\ nextId = 20
    /\ added = <<>>
    /\ file_snapshots = <<>>
    /\ code_symbols = <<>>
    /\ code_snippets = <<>>
    /\ first_snapshot = <<>>
    /\ probe \in {<<s>> : s \in ProbeSessions}
    /\ calls = NoCalls
    /\ cache = <<>>
    /\ cache_config = DefaultCacheConfig
    /\ last = Call("init", NoId, None)

CompressNext == CompressCall

CompressSpec == CompressInit /\ [][CompressNext]_vars

(***************************************************************************)
(* Properties.                                                             *)
(***************************************************************************)
\* The stored aggregate of session x, as get_session returns it.
Stored(x) == FromDict(sessions[x].data)

\* The last call was an add_message that compressed: the period it appended
\* carries the uuid drawn last.
CompressedByLastCall ==
    /\ last.op = "add_message"
    /\ last.res = TRUE
    /\ \E i \in 1..Len(Stored(last.sid).compressed_history) :
          Stored(last.sid).compressed_history[i].id = nextId - 1

\* The period appended by the last call.
LastPeriod ==
    LET h == Stored(last.sid).compressed_history
    IN  h[CHOOSE i \in 1..Len(h) : h[i].id = nextId - 1]

\* C1: after every add_message call the persisted session holds at most
\* max_messages messages.
C1_WindowBounded ==
    \A x \in DOMAIN sessions : Len(Stored(x).messages) <= max_messages

\* C1 witness: an add_message call has just compressed a full window.
C1_Witness ==
    /\ CompressedByLastCall
    /\ Len(Stored(last.sid).messages) = max_messages
    /\ max_messages > 1

RECURSIVE SumMessageCount(_)
SumMessageCount(compressed_history) ==
    IF compressed_history = <<>> THEN 0
    ELSE Head(compressed_history).message_count + SumMessageCount(Tail(compressed_history))

\* C2: no message is lost by compression: the message_count of the compressed
\* periods plus the length of the window is the number of successful
\* add_message calls on the session.
C2_NoMessageLost ==
    \A x \in DOMAIN sessions :
        SumMessageCount(Stored(x).compressed_history) + Len(Stored(x).messages) = added[x]

\* C2 witness: a compression evicted fewer messages than compression_threshold
\* and messages were added after it.
C2_Witness ==
    \E x \in DOMAIN sessions :
        /\ Len(Stored(x).compressed_history) > 0
        /\ Stored(x).compressed_history[1].message_count < compression_threshold
        /\ Len(Stored(x).messages) > 0

\* C3: an add_message call, compressing or not, leaves the key moments of the
\* session as they were (members, fields and order).
C3_KeyMomentsUntouched ==
    [][(last'.op = "add_message" /\ last'.res = TRUE /\ last'.sid \in DOMAIN sessions)
        => sessions'[last'.sid].data.key_moments = sessions[last'.sid].data.key_moments]_vars

\* C3 witness: the last add_message compressed a window that contains the
\* timestamp of a key moment.
C3_Witness ==
    /\ CompressedByLastCall
    /\ LastPeriod.key_moments # <<>>
    /\ Len(Stored(last.sid).key_moments) > 0

KeyMomentsSorted(key_moments) ==
    \A i \in 1..Len(key_moments), j \in 1..Len(key_moments) :
        i < j => \/ key_moments[i].importance > key_moments[j].importance
                 \/ /\ key_moments[i].importance = key_moments[j].importance
                    /\ key_moments[i].timestamp >= key_moments[j].timestamp

\* An add_key_moment step whose new moment (uuid nextId) is more important than
\* every moment of the session puts it first.
HighestFirst ==
    (last'.op = "add_key_moment" /\ last'.res = TRUE)
    => LET old == sessions[last'.sid].data.key_moments
           new == sessions'[last'.sid].data.key_moments
           added_moment == new[CHOOSE i \in 1..Len(new) : new[i].id = nextId]
       IN  (\A i \in 1..Len(old) : added_moment.importance > old[i].importance)
               => new[1].id = nextId

\* C4: the stored key_moments are always sorted by (importance descending,
\* timestamp descending), and a new moment more important than all others
\* is stored first.
C4_KeyMomentsSorted ==
    /\ [](\A x \in DOMAIN sessions : KeyMomentsSorted(Stored(x).key_moments))
    /\ [][HighestFirst]_vars

\* C4 witness: the last add_key_moment put its moment in front of an older,
\* less important one.
C4_Witness ==
    /\ last.op = "add_key_moment"
    /\ last.res = TRUE
    /\ Len(Stored(last.sid).key_moments) >= 2
    /\ Stored(last.sid).key_moments[1].id = nextId - 1
    /\ Stored(last.sid).key_moments[1].importance > Stored(last.sid).key_moments[2].importance

\* C5: a save_file_snapshot call with a file_path and content saved before
\* returns the id the first save returned and adds no file_snapshots and no
\* code_symbols row, whatever session_id and language it passes.
C5_SnapshotIdempotent ==
    [][(last'.op = "save_file_snapshot"
        /\ <<last'.sid[2], last'.sid[3]>> \in DOMAIN first_snapshot)
        => /\ last'.res = first_snapshot[<<last'.sid[2], last'.sid[3]>>]
           /\ file_snapshots' = file_snapshots
           /\ code_symbols' = code_symbols]_vars

\* C5 witness: the last call passed another session_id and another language
\* than the stored row has, and got the id of that row.
C5_Witness ==
    /\ last.op = "save_file_snapshot"
    /\ \E i \in 1..Len(file_snapshots) :
          /\ file_snapshots[i].id = last.res
          /\ file_snapshots[i].session_id # last.sid[1]
          /\ file_snapshots[i].language # last.sid[4]
          /\ last.sid[4] # ""
          /\ \E k \in 1..Len(code_symbols) : code_symbols[k].file_snapshot_id = last.res

\* The session ids that were handed out and are no longer in the store.
Deleted == (1..(nextSid - 1)) \ DOMAIN sessions

\* A cleanup_old_sessions(d) step archives exactly the active sessions idle
\* for more than d days and keeps them in the store.
CleanupArchivesIdle ==
    (last'.op = "cleanup_old_sessions")
    => \A x \in DOMAIN sessions :
          sessions[x].status = "active"
          => /\ x \in DOMAIN sessions'
             /\ sessions'[x].status =
                   (IF sessions[x].last_used < now - last'.sid
                    THEN "archived" ELSE "active")

\* A lookup of a session whose status column is archived reports archived:
\* get_session the enum member, get_session_context its value.
LookupReportsArchived ==
    (last.op \in {"get_session", "get_session_context"} /\ last.res # None
     /\ last.sid \in DOMAIN sessions /\ sessions[last.sid].status = "archived")
    => last.res[1].status = (IF last.op = "get_session" THEN "ARCHIVED" ELSE "archived")

\* C6: cleanup_old_sessions(d) moves every active session idle for more than d
\* days to archived and leaves the other active sessions active, and a lookup
\* of an archived session then reports status archived.
C6_CleanupArchives ==
    /\ [][CleanupArchivesIdle]_vars
    /\ []LookupReportsArchived

\* A cleanup_old_sessions step deletes an archived session exactly when it has
\* been idle for more than 90 days.
CleanupDeletesVeryOld ==
    (last'.op = "cleanup_old_sessions")
    => \A x \in DOMAIN sessions :
          sessions[x].status = "archived"
          => ((x \notin DOMAIN sessions') <=> (sessions[x].last_used < now - VeryOldDays))

\* No lookup returns a deleted session.
LookupsSkipDeleted ==
    /\ (last.op \in {"get_session", "get_session_context"} /\ last.sid \in Deleted)
          => last.res = None
    /\ (last.op = "get_latest_session") => last.res \notin Deleted

\* C7: cleanup_old_sessions deletes the archived sessions idle for more than
\* 90 days and no other archived session; get_session and get_session_context
\* return none for a deleted id and get_latest_session never returns one.
C7_CleanupDeletes ==
    /\ [][CleanupDeletesVeryOld]_vars
    /\ []LookupsSkipDeleted

\* C7 witness: a sweep has deleted a session and kept an archived one, and a
\* lookup of the deleted id has returned none.
C7_Witness ==
    /\ last.op = "get_session_context"
    /\ last.sid \in Deleted
    /\ last.res = None
    /\ \E x \in DOMAIN sessions : sessions[x].status = "archived" /\ sessions[x].last_used < now

\* The active sessions of a project, by the status column.
ActiveOf(project_name) ==
    {x \in DOMAIN sessions :
        sessions[x].project_name = project_name /\ sessions[x].status = "active"}

\* get_latest_session returns an active session of the project with the
\* largest last_used, and none exactly when the project has no active session.
LatestIsMostRecentActive ==
    (last.op = "get_latest_session")
    => /\ (last.res = NoId) <=> (ActiveOf(last.sid) = {})
       /\ (last.res # NoId)
            => /\ last.res \in ActiveOf(last.sid)
               /\ \A y \in ActiveOf(last.sid) :
                     sessions[y].last_used <= sessions[last.res].last_used

\* The store holds exactly the two sessions two create_session(project_name)
\* calls made, untouched since.
TwoCreated(project_name) ==
    /\ nextSid = 3
    /\ DOMAIN sessions = {1, 2}
    /\ \A x \in {1, 2} :
          /\ sessions[x].project_name = project_name
          /\ sessions[x].status = "active"
          /\ sessions[x].data.status = "active"
          /\ sessions[x].last_used = sessions[x].created_at
          /\ sessions[x].data.messages = <<>>
          /\ sessions[x].data.key_moments = <<>>

\* C8 as stated: get_latest_session returns a most recently used active session
\* of the project, none exactly when there is none, and after two sequential
\* create_session calls it returns the second.
C8_Original ==
    /\ LatestIsMostRecentActive
    /\ (last.op = "get_latest_session" /\ TwoCreated(last.sid)) => last.res = 2

\* C8 amended: as C8, but after two sequential create_session calls it returns
\* the second when the two calls read different timestamps; when they read the
\* same timestamp it returns one of the two.
C8_LatestSession ==
    /\ LatestIsMostRecentActive
    /\ (last.op = "get_latest_session" /\ TwoCreated(last.sid))
          => /\ (sessions[1].created_at # sessions[2].created_at => last.res = 2)
             /\ last.res \in {1, 2}

\* C8 witness: two sessions of one project created at different times, and
\* get_latest_session has returned the second.
C8_Witness ==
    /\ last.op = "get_latest_session"
    /\ TwoCreated(last.sid)
    /\ sessions[1].created_at < sessions[2].created_at
    /\ last.res = 2

\* C9: add_message, add_key_moment and archive_session with a session id that
\* is not in the store return false and change nothing in the store.
C9_NotFound ==
    [][(last'.op \in {"add_message", "add_key_moment", "archive_session"}
        /\ last'.sid \notin DOMAIN sessions)
        => /\ last'.res = FALSE
           /\ sessions' = sessions
           /\ nextSid' = nextSid
           /\ <<file_snapshots, code_symbols>>' = <<file_snapshots, code_symbols>>]_vars

\* C9 witness: add_message on the id of a deleted session returned false while
\* another session is stored.
C9_Witness ==
    /\ last.op = "add_message"
    /\ last.res = FALSE
    /\ last.sid \in Deleted
    /\ DOMAIN sessions # {}

\* The messages of m that are not in the list rest.
Evicted(m, rest) ==
    {i \in 1..Len(m) : \A k \in 1..Len(rest) : rest[k] # m[i]}

\* C10: _compress_session changes nothing when len(messages) <= max_messages;
\* otherwise it removes exactly min(compression_threshold, len(messages))
\* messages, the oldest ones, and never more than compression_threshold.
C10_CompressEvicts ==
    (probe # None /\ Len(probe) = 2)
    => LET before == probe[1].messages
           after == probe[2].messages
           n == Len(before)
       IN  IF n <= max_messages THEN probe[2] = probe[1]
           ELSE /\ Cardinality(Evicted(before, after)) = Min(compression_threshold, n)
                /\ Cardinality(Evicted(before, after)) <= compression_threshold
                /\ Len(after) = n - Min(compression_threshold, n)
                /\ after = SubSeq(before, n - Len(after) + 1, n)
                /\ \A i \in Evicted(before, after), k \in 1..Len(after) :
                      before[i].timestamp <= after[k].timestamp

\* C10 witness: a window over max_messages lost compression_threshold messages
\* and kept the rest.
C10_Witness ==
    /\ probe # None
    /\ Len(probe) = 2
    /\ Len(probe[1].messages) > max_messages
    /\ Len(probe[2].messages) > 0
    /\ Len(probe[2].messages) = Len(probe[1].messages) - compression_threshold

\* _compress_session has run on a session with more than max_messages messages.
Compressed ==
    /\ probe # None
    /\ Len(probe) = 2
    /\ Len(probe[1].messages) > max_messages

\* The periods of the session after the call that carry the uuid the call drew.
AppendedPeriods ==
    {p \in {probe[2].compressed_history[i] : i \in 1..Len(probe[2].compressed_history)} :
        p.id = nextId}

\* The messages the call evicted, as positions in the window before the call.
EvictedByCall == Evicted(probe[1].messages, probe[2].messages)

\* C11: a compress call on more than max_messages messages appends exactly one
\* compressed period; its start_time and end_time are the timestamps of the
\* first and the last evicted message and its message_count is the number of
\* evicted messages.
C11_OnePeriodPerCompress ==
    Compressed
    => LET old == probe[1].compressed_history
           new == probe[2].compressed_history
           first == CHOOSE i \in EvictedByCall : \A k \in EvictedByCall : i <= k
           final == CHOOSE i \in EvictedByCall : \A k \in EvictedByCall : k <= i
       IN  /\ Len(new) = Len(old) + 1
           /\ \A i \in 1..Len(old) : \E k \in 1..Len(new) : new[k] = old[i]
           /\ Cardinality(AppendedPeriods) = 1
           /\ \A p \in AppendedPeriods :
                 /\ p.start_time = probe[1].messages[first].timestamp
                 /\ p.end_time = probe[1].messages[final].timestamp
                 /\ p.message_count = Cardinality(EvictedByCall)

\* C11 witness: the call evicted several messages of different times, fewer
\* than the window held, from a session that already had a period.
C11_Witness ==
    /\ Compressed
    /\ Len(probe[1].compressed_history) = 1
    /\ Len(probe[2].messages) > 0
    /\ \E p \in AppendedPeriods : p.message_count > 1 /\ p.start_time < p.end_time

\* The ids a list of key moment ids holds.
IdsOf(ids) == {ids[i] : i \in 1..Len(ids)}

\* C12: the key_moments of the appended period are the ids of the key moments
\* of the session whose timestamp lies in [start_time, end_time] of the period,
\* each once, whatever their related_messages.
C12_PeriodKeyMomentsByTime ==
    Compressed
    => \A p \in AppendedPeriods :
          /\ IdsOf(p.key_moments) =
                {probe[1].key_moments[i].id : i \in
                    {i \in 1..Len(probe[1].key_moments) :
                        /\ p.start_time <= probe[1].key_moments[i].timestamp
                        /\ probe[1].key_moments[i].timestamp <= p.end_time}}
          /\ Cardinality(IdsOf(p.key_moments)) = Len(p.key_moments)

\* C12 witness: the period took a moment related to no message and left out a
\* later moment related to an evicted message.
C12_Witness ==
    /\ Compressed
    /\ Len(probe[1].key_moments) = 2
    /\ \E p \in AppendedPeriods, i, k \in 1..2 :
          /\ probe[1].key_moments[i].related_messages = <<>>
          /\ probe[1].key_moments[i].id \in IdsOf(p.key_moments)
          /\ probe[1].key_moments[k].related_messages = <<1>>
          /\ probe[1].key_moments[k].id \notin IdsOf(p.key_moments)
          /\ 1 \in {probe[1].messages[m].id : m \in EvictedByCall}

\* Every element of the list old is an element of the list new, unaltered.
KeptIn(old, new) == \A i \in 1..Len(old) : \E k \in 1..Len(new) : new[k] = old[i]

\* C13: no add_message (with its compression), add_key_moment or
\* archive_session step removes or alters a key moment or a compressed period
\* of a stored session, and neither list gets shorter.
C13_AppendOnly ==
    [][\A x \in DOMAIN sessions \cap DOMAIN sessions' :
          /\ KeptIn(sessions[x].data.key_moments, sessions'[x].data.key_moments)
          /\ KeptIn(sessions[x].data.compressed_history,
                    sessions'[x].data.compressed_history)
          /\ Len(sessions[x].data.key_moments) <= Len(sessions'[x].data.key_moments)
          /\ Len(sessions[x].data.compressed_history)
                <= Len(sessions'[x].data.compressed_history)]_vars

\* C13 witness: the last add_message appended a second compressed period, of
\* a later time than the first.
C13_Witness ==
    /\ CompressedByLastCall
    /\ Len(Stored(last.sid).compressed_history) >= 2
    /\ Stored(last.sid).compressed_history[1].id # nextId - 1
    /\ Stored(last.sid).compressed_history[1].start_time < LastPeriod.start_time

\* C14: the stored compressed_history of every session is sorted by start_time
\* ascending.
C14_HistorySorted ==
    \A x \in DOMAIN sessions :
        \A i \in 1..Len(Stored(x).compressed_history),
           j \in 1..Len(Stored(x).compressed_history) :
            i < j => Stored(x).compressed_history[i].start_time
                        <= Stored(x).compressed_history[j].start_time

\* C14 witness: a session has two compressed periods that start at different
\* times.
C14_Witness ==
    \E x \in DOMAIN sessions :
        /\ Len(Stored(x).compressed_history) = 2
        /\ Stored(x).compressed_history[1].start_time
              # Stored(x).compressed_history[2].start_time

\* C15: the status of a session only moves forward: a session whose stored
\* status (the status column) is archived is archived after every step that
\* keeps it, and a deleted session never comes back.
C15_StatusForward ==
    [][/\ \A x \in DOMAIN sessions \cap DOMAIN sessions' :
             sessions[x].status = "archived" => sessions'[x].status = "archived"
       /\ \A x \in Deleted : x \notin DOMAIN sessions']_vars

\* C16: every stored key moment has an importance in 1..10, whether
\* add_key_moment was called with or without an importance.
C16_ImportanceInRange ==
    \A x \in DOMAIN sessions :
        \A i \in 1..Len(Stored(x).key_moments) :
            Stored(x).key_moments[i].importance \in 1..10

\* The defaults as the claim lists them, by the value of the moment type.
ClaimedDefaults ==
    [breakthrough |-> 9, error_solved |-> 8, deployment |-> 8, feature_completed |-> 7,
     important_decision |-> 7, config_changed |-> 6, refactoring |-> 6, file_created |-> 5]

\* The key moment with the uuid drawn by the step, as stored after it.
StoredMoment(session_id) ==
    LET new == sessions'[session_id].data.key_moments
    IN  new[CHOOSE k \in 1..Len(new) : new[k].id = nextId]

\* C17: add_key_moment without an importance stores the default of the moment
\* type, and with an importance stores that importance unchanged.
C17_DefaultImportance ==
    [][\A s \in DOMAIN sessions, t \in DOMAIN KeyMomentType, i \in ImportanceInputs :
          AddKeyMoment(s, t, i, <<>>)
          => /\ StoredMoment(s).type = KeyMomentType[t]
             /\ StoredMoment(s).importance =
                   (IF i = NoImportance THEN ClaimedDefaults[KeyMomentType[t]] ELSE i)]_vars

\* C17 witness: a moment stored with the default of its type next to one stored
\* with the importance passed for the same type.
C17_Witness ==
    /\ last.op = "add_key_moment"
    /\ last.res = TRUE
    /\ Len(Stored(last.sid).key_moments) = 2
    /\ Stored(last.sid).key_moments[1].type = "ERROR_SOLVED"
    /\ Stored(last.sid).key_moments[1].importance = 8
    /\ Stored(last.sid).key_moments[2].type = "ERROR_SOLVED"
    /\ Stored(last.sid).key_moments[2].importance = 3

\* C18: get_session_context and get_stats are pure reads: the step leaves every
\* row of sessions, file_snapshots and code_symbols as it was.
C18_PureReads ==
    [][(last'.op \in {"get_session_context", "get_stats"})
        => /\ sessions' = sessions
           /\ file_snapshots' = file_snapshots
           /\ code_symbols' = code_symbols]_vars

\* C18 witness: get_session_context has returned the context of a session last
\* used earlier, with a message, while snapshot and symbol rows are stored.
C18_Witness ==
    /\ last.op = "get_session_context"
    /\ last.res # None
    /\ last.res[1].stats.total_messages > 0
    /\ sessions[last.sid].last_used < now
    /\ file_snapshots # <<>>
    /\ code_symbols # <<>>

\* s[i] does not rank below s[j] by (importance, timestamp) descending.
Ordered(s, i, j) ==
    \/ s[i].importance > s[j].importance
    \/ (s[i].importance = s[j].importance /\ s[i].timestamp >= s[j].timestamp)

\* get_session_context of an absent session returns none.
ContextOfAbsent ==
    (last.op = "get_session_context" /\ last.sid \notin DOMAIN sessions)
    => last.res = None

\* The key_moments of a returned context: min(20, n) moments of the session,
\* in (importance, timestamp) descending order, none ranked after a moment
\* that was left out.
ContextKeyMomentsTop ==
    (last.op = "get_session_context" /\ last.sid \in DOMAIN sessions)
    => LET all == sessions[last.sid].data.key_moments
           top == last.res[1].key_moments
           left == {i \in 1..Len(all) : \A k \in 1..Len(top) : top[k] # all[i]}
       IN  /\ Len(top) = Min(20, Len(all))
           /\ KeptIn(top, all)
           /\ \A i \in 1..Len(top), j \in 1..Len(top) : i < j => Ordered(top, i, j)
           /\ \A i \in left, k \in 1..Len(top) :
                 \/ top[k].importance > all[i].importance
                 \/ /\ top[k].importance = all[i].importance
                    /\ top[k].timestamp >= all[i].timestamp

\* The recent_messages of a returned context: the min(50, m) newest messages
\* of the session in ascending timestamp order.
ContextMessagesRecent ==
    (last.op = "get_session_context" /\ last.sid \in DOMAIN sessions)
    => LET all == sessions[last.sid].data.messages
           recent == last.res[1].recent_messages
           left == {i \in 1..Len(all) : \A k \in 1..Len(recent) : recent[k] # all[i]}
       IN  /\ Len(recent) = Min(50, Len(all))
           /\ KeptIn(recent, all)
           /\ \A i \in 1..Len(recent), j \in 1..Len(recent) :
                 i < j => recent[i].timestamp <= recent[j].timestamp
           /\ \A i \in left, k \in 1..Len(recent) :
                 all[i].timestamp <= recent[k].timestamp

\* The stats of a returned context are the lengths of the stored lists.
ContextStats ==
    (last.op = "get_session_context" /\ last.sid \in DOMAIN sessions)
    => /\ last.res[1].stats.total_messages = Len(sessions[last.sid].data.messages)
       /\ last.res[1].stats.total_key_moments = Len(sessions[last.sid].data.key_moments)
       /\ last.res[1].stats.compressed_periods
             = Len(sessions[last.sid].data.compressed_history)

\* C19: get_session_context returns none for an absent session; otherwise the
\* first min(20, n) key moments by (importance, timestamp) descending, the
\* min(50, m) newest messages by ascending timestamp, and the current lengths
\* of messages, key_moments and compressed_history.
C19_SessionContext ==
    /\ ContextOfAbsent
    /\ ContextKeyMomentsTop
    /\ ContextMessagesRecent
    /\ ContextStats

\* C19 witness: a context of 20 out of more key moments and of 50 out of more
\* messages with rising timestamps.
C19_Witness ==
    /\ last.op = "get_session_context"
    /\ last.res # None
    /\ last.res[1].stats.total_key_moments > 20
    /\ Len(last.res[1].key_moments) = 20
    /\ last.res[1].stats.total_messages > 50
    /\ Len(last.res[1].recent_messages) = 50
    /\ last.res[1].recent_messages[1].timestamp < last.res[1].recent_messages[50].timestamp

\* C20: archive_session on a stored session returns true, stores status
\* archived (column and aggregate) and last_used = now, and leaves messages,
\* key_moments and compressed_history as they were; on a session that is
\* archived already the status stays archived.
C20_Archive ==
    [][(last'.op = "archive_session" /\ last'.sid \in DOMAIN sessions)
        => LET old == sessions[last'.sid]
               new == sessions'[last'.sid]
           IN  /\ last'.res = TRUE
               /\ new.status = "archived"
               /\ new.data.status = "archived"
               /\ new.last_used = now
               /\ new.data.last_used = now
               /\ new.data.messages = old.data.messages
               /\ new.data.key_moments = old.data.key_moments
               /\ new.data.compressed_history = old.data.compressed_history]_vars

\* C20 witness: archive_session has archived a session that was last used
\* earlier and holds a message, a key moment and a compressed period.
C20_Witness ==
    /\ last.op = "archive_session"
    /\ last.res = TRUE
    /\ sessions[last.sid].status = "archived"
    /\ sessions[last.sid].last_used = now
    /\ Len(Stored(last.sid).messages) > 0
    /\ Len(Stored(last.sid).key_moments) > 0
    /\ Len(Stored(last.sid).compressed_history) > 0
    /\ \A i \in 1..Len(Stored(last.sid).messages) :
          Stored(last.sid).messages[i].timestamp < now

\* C21: create_session returns an id no stored session has, stores under it an
\* active session with empty messages, key_moments and compressed_history and
\* created_at = last_used = now, and changes no other session.
C21_CreateSession ==
    [][(last'.op = "create_session")
        => /\ last'.res \notin DOMAIN sessions
           /\ DOMAIN sessions' = DOMAIN sessions \cup {last'.res}
           /\ \A x \in DOMAIN sessions : sessions'[x] = sessions[x]
           /\ LET row == sessions'[last'.res] IN
                 /\ row.status = "active"
                 /\ row.created_at = now
                 /\ row.last_used = row.created_at
                 /\ FromDict(row.data).id = last'.res
                 /\ FromDict(row.data).status = "ACTIVE"
                 /\ FromDict(row.data).messages = <<>>
                 /\ FromDict(row.data).key_moments = <<>>
                 /\ FromDict(row.data).compressed_history = <<>>
                 /\ FromDict(row.data).created_at = FromDict(row.data).last_used]_vars

\* C21 witness: create_session has added a second session next to an archived
\* one created earlier.
C21_Witness ==
    /\ last.op = "create_session"
    /\ last.res \in DOMAIN sessions
    /\ \E x \in DOMAIN sessions :
          /\ x # last.res
          /\ sessions[x].status = "archived"
          /\ sessions[x].created_at < sessions[last.res].created_at

\* The count get_stats reported for status st; a status it does not list has
\* count 0.
ReportedCount(st) ==
    IF st \in DOMAIN last.res.status_distribution
    THEN last.res.status_distribution[st] ELSE 0

\* C22: get_stats reports the number of stored sessions, for each status the
\* number of sessions stored with that status (summing to the total), and the
\* number of distinct project names.
C22_Stats ==
    (last.op = "get_stats")
    => /\ last.res.total_sessions = Cardinality(DOMAIN sessions)
       /\ \A st \in {"active", "archived", "closed"} :
             ReportedCount(st) = Cardinality({x \in DOMAIN sessions : sessions[x].status = st})
       /\ \A st \in DOMAIN last.res.status_distribution :
             st \in {"active", "archived", "closed"} /\ last.res.status_distribution[st] > 0
       /\ ReportedCount("active") + ReportedCount("archived") + ReportedCount("closed")
             = last.res.total_sessions
       /\ last.res.unique_projects
             = Cardinality({sessions[x].project_name : x \in DOMAIN sessions})

\* C22 witness: get_stats with an active session and one archived by a sweep,
\* both of one project.
C22_Witness ==
    /\ last.op = "get_stats"
    /\ \E x \in DOMAIN sessions :
          sessions[x].status = "archived" /\ sessions[x].data.status = "active"
    /\ last.res.total_sessions = 2
    /\ last.res.unique_projects = 1
    /\ ReportedCount("active") = 1
    /\ ReportedCount("archived") = 1

\* The moment types of a list of candidates, in list order.
TypesOf(moments) == [i \in 1..Len(moments) |-> moments[i].type]

\* The list of candidates has one of type moment_type.
Yields(moments, moment_type) == \E i \in 1..Len(moments) : moments[i].type = moment_type

\* C23: auto_detect_key_moments decides every category on its own: a keyword
\* family is reported exactly when the text contains one of its keywords,
\* FILE_CREATED exactly when the actions hold a creation action and files is
\* not empty, CONFIG_CHANGED exactly when the text contains a config keyword
\* and files is not empty; nothing is reported without keyword and files.
C23_DetectCategories ==
    (last.op = "auto_detect_key_moments")
    => LET text == Lower(last.sid[1])
           actions == last.sid[2]
           files == last.sid[3]
           moments == last.res
       IN  /\ Yields(moments, "ERROR_SOLVED") <=> ContainsAny(text, error_keywords)
           /\ Yields(moments, "FEATURE_COMPLETED") <=> ContainsAny(text, completion_keywords)
           /\ Yields(moments, "REFACTORING") <=> ContainsAny(text, refactoring_keywords)
           /\ Yields(moments, "IMPORTANT_DECISION") <=> ContainsAny(text, decision_keywords)
           /\ Yields(moments, "FILE_CREATED")
                 <=> ((\E i \in 1..Len(actions) : actions[i] \in creation_actions)
                      /\ Len(files) > 0)
           /\ Yields(moments, "CONFIG_CHANGED")
                 <=> (ContainsAny(text, config_keywords) /\ Len(files) > 0)
           /\ (Len(files) = 0
               /\ ~ContainsAny(text, error_keywords \cup completion_keywords
                                     \cup refactoring_keywords \cup decision_keywords))
                 => moments = <<>>

\* C23 witness: a text with keywords of five families and creation actions,
\* without files, yields neither CONFIG_CHANGED nor FILE_CREATED.
C23_Witness ==
    /\ last.op = "auto_detect_key_moments"
    /\ last.sid[1] = "Fixed config, refactored and done: decision made"
    /\ last.sid[2] = <<"create", "write">>
    /\ last.sid[3] = <<>>
    /\ TypesOf(last.res) =
          <<"ERROR_SOLVED", "FEATURE_COMPLETED", "REFACTORING", "IMPORTANT_DECISION">>

\* The order in which the categories are checked.
CategoryOrder ==
    <<"ERROR_SOLVED", "FILE_CREATED", "FEATURE_COMPLETED", "CONFIG_CHANGED",
      "REFACTORING", "IMPORTANT_DECISION">>

\* The position of a moment type in CategoryOrder, 0 for a type not in it.
Rank(moment_type) ==
    IF \E k \in 1..Len(CategoryOrder) : CategoryOrder[k] = moment_type
    THEN CHOOSE k \in 1..Len(CategoryOrder) : CategoryOrder[k] = moment_type
    ELSE 0

\* C24: the returned list holds only the six detectable types, each at most
\* once, in the order error_solved, file_created, feature_completed,
\* config_changed, refactoring, important_decision.
C24_DetectOrder ==
    (last.op = "auto_detect_key_moments")
    => /\ \A i \in 1..Len(last.res) : Rank(last.res[i].type) > 0
       /\ \A i \in 1..Len(last.res), j \in 1..Len(last.res) :
             i < j => Rank(last.res[i].type) < Rank(last.res[j].type)

\* C24 witness: one call has returned all six categories.
C24_Witness ==
    /\ last.op = "auto_detect_key_moments"
    /\ TypesOf(last.res) = CategoryOrder

\* The (language, content) pairs on which the analyzer fails: ast.parse raises
\* SyntaxError on both texts.
Unparsable == {<<"python", "def f(:">>, <<"python", "function g() {}">>}

\* The language a save_file_snapshot(session_id, file_path, content, language)
\* call stores: the one passed, or the one of the file suffix.
CallLanguage(args) == IF args[4] = "" THEN DetectLanguage(args[2]) ELSE args[4]

\* C25: save_file_snapshot of new content the analyzer cannot parse inserts
\* the snapshot row, returns its id and stores no symbol for it.
C25_AnalyzerFailure ==
    [][(/\ last'.op = "save_file_snapshot"
        /\ <<CallLanguage(last'.sid), last'.sid[3]>> \in Unparsable
        /\ \A i \in 1..Len(file_snapshots) :
              ~(file_snapshots[i].file_path = last'.sid[2]
                /\ file_snapshots[i].content = last'.sid[3]))
        => /\ Len(file_snapshots') = Len(file_snapshots) + 1
           /\ SubSeq(file_snapshots', 1, Len(file_snapshots)) = file_snapshots
           /\ file_snapshots'[Len(file_snapshots')].id = last'.res
           /\ file_snapshots'[Len(file_snapshots')].file_path = last'.sid[2]
           /\ file_snapshots'[Len(file_snapshots')].content = last'.sid[3]
           /\ file_snapshots'[Len(file_snapshots')].language = CallLanguage(last'.sid)
           /\ code_symbols' = code_symbols]_vars

\* C25 witness: a Python file with a syntax error has been saved after a file
\* that has a symbol: its row is stored and no symbol refers to it.
C25_Witness ==
    /\ last.op = "save_file_snapshot"
    /\ last.sid[3] = "def f(:"
    /\ CallLanguage(last.sid) = "python"
    /\ Len(file_snapshots) = 2
    /\ file_snapshots[2].id = last.res
    /\ code_symbols # <<>>
    /\ \A k \in 1..Len(code_symbols) : code_symbols[k].file_snapshot_id # last.res

\* Every code_snippets row refers to a stored file_snapshots row and carries
\* that row's language.
SnippetsReferToSnapshots ==
    \A k \in 1..Len(code_snippets) :
        \E i \in 1..Len(file_snapshots) :
            /\ file_snapshots[i].id = code_snippets[k].file_snapshot_id
            /\ file_snapshots[i].language = code_snippets[k].language

\* C26: a reference to a session or snapshot that is not stored is reported
\* as not found and stores nothing: every code_snippets row refers to a stored
\* file_snapshots row and carries its language, and every file_snapshots row
\* is inserted under the id of a session stored at that moment.
C26_ReferencesExist ==
    /\ []SnippetsReferToSnapshots
    /\ [][/\ \A i \in 1..Len(file_snapshots') :
                (i > Len(file_snapshots)) => (file_snapshots'[i].session_id \in DOMAIN sessions)
          /\ (/\ last'.op = "create_code_snippet"
              /\ \A i \in 1..Len(file_snapshots) : file_snapshots[i].id # last'.sid[1])
             => (last'.res = None /\ code_snippets' = code_snippets)]_vars

\* The rows of a table before a step are its first rows after the step.
RowsKept(before, after) ==
    /\ Len(after) >= Len(before)
    /\ SubSeq(after, 1, Len(before)) = before

\* C27: no step removes or changes a row of file_snapshots, code_snippets or
\* code_symbols, a retention sweep that deletes the session of a snapshot
\* included.
C27_ArtifactsKept ==
    [][/\ RowsKept(file_snapshots, file_snapshots')
       /\ RowsKept(code_snippets, code_snippets')
       /\ RowsKept(code_symbols, code_symbols')]_vars

\* C27 witness: a sweep has just deleted the session under which a snapshot
\* with a symbol and a snippet was saved.
C27_Witness ==
    /\ last.op = "cleanup_old_sessions"
    /\ last.res[2] = 1
    /\ \E i \in 1..Len(file_snapshots) :
          /\ file_snapshots[i].session_id < nextSid
          /\ file_snapshots[i].session_id \notin DOMAIN sessions
          /\ \E k \in 1..Len(code_symbols) :
                code_symbols[k].file_snapshot_id = file_snapshots[i].id
          /\ \E k \in 1..Len(code_snippets) :
                code_snippets[k].file_snapshot_id = file_snapshots[i].id

\* The contents saved so far for a path, by the history of save calls.
SavedContents(file_path) ==
    {c \in Contents : <<file_path, c>> \in DOMAIN first_snapshot}

\* C28: get_file_history(path) returns one entry per distinct content saved
\* for the path, newest first; the history of a path never gets shorter, and
\* saving content already saved for the path leaves the history as it was.
C28_FileHistory ==
    /\ [](last.op = "get_file_history" =>
            /\ Len(last.res) = Cardinality(SavedContents(last.sid))
            /\ {last.res[k].content_hash : k \in 1..Len(last.res)}
                  = {Sha256(c) : c \in SavedContents(last.sid)}
            /\ \A a, b \in 1..Len(last.res) :
                  a < b => last.res[a].timestamp >= last.res[b].timestamp)
    /\ [][/\ \A f \in FilePaths :
                Cardinality(HistoryRows(f)') >= Cardinality(HistoryRows(f))
          /\ \A f \in FilePaths :
                (/\ last'.op = "save_file_snapshot"
                 /\ last'.sid[2] = f
                 /\ <<f, last'.sid[3]>> \in DOMAIN first_snapshot)
                => GetFileHistory(f)' = GetFileHistory(f)]_vars

\* C28 witness: the history of a path saved twice with different content at
\* different times has been read: two entries, the later save first.
C28_Witness ==
    /\ last.op = "get_file_history"
    /\ Len(last.res) = 2
    /\ last.res[1].timestamp > last.res[2].timestamp
    /\ last.res[1].content_hash # last.res[2].content_hash

\* The ids of the messages and key moments of session x as stored in a table.
ItemIds(table, x) ==
    LET session == FromDict(table[x].data)
    IN  {session.messages[i].id : i \in 1..Len(session.messages)}
            \cup {session.key_moments[i].id : i \in 1..Len(session.key_moments)}

\* C29: when two add_message / add_key_moment calls on one session id both
\* load the session before either saves, the call that saves second returns
\* success and the stored aggregate then has its item and lacks the item the
\* other call wrote.
C29_LostUpdate ==
    [][\A w \in Callers :
          (/\ calls[w] # None
           /\ calls'[w] = None
           /\ calls[w][1].op \in {"add_message", "add_key_moment"}
           /\ calls[w][1].overlapped # {})
          => /\ last'.res = TRUE
             /\ nextId \in ItemIds(sessions', calls[w][1].session_id)
             /\ ItemIds(sessions', calls[w][1].session_id) \cap calls[w][1].overlapped = {}]_vars

\* C29 witness: two add_message calls on one session have both returned
\* success and the stored session holds one message, nothing compressed.
C29_Witness ==
    /\ last.op = "add_message"
    /\ last.res = TRUE
    /\ calls = NoCalls
    /\ cache = <<>>
    /\ cache_config = DefaultCacheConfig
    /\ last.sid \in DOMAIN sessions
    /\ added[last.sid] = 2
    /\ Len(Stored(last.sid).messages) = 1
    /\ Stored(last.sid).compressed_history = <<>>

\* C30: a sweep that runs between the load and the save of an add_message,
\* add_key_moment or archive_session is safe: the save does not bring back a
\* session the sweep deleted, and a session the sweep archived is archived
\* after the save.
C30_SweepSafe ==
    [][\A w \in Callers :
          (calls[w] # None /\ calls'[w] = None)
          => LET s == calls[w][1].session_id IN
             /\ s \notin DOMAIN sessions => s \notin DOMAIN sessions'
             /\ (/\ s \in DOMAIN sessions
                 /\ calls[w][1].column = SessionStatus.ACTIVE
                 /\ sessions[s].status = SessionStatus.ARCHIVED
                 /\ Stored(s).status = "ACTIVE")
                => sessions'[s].status = SessionStatus.ARCHIVED]_vars

\* C31: no core operation raises to its caller: a call during which the
\* store fails returns a failure result (add_key_moment returns False) and
\* leaves the stored sessions as they were.
C31_NoRaise ==
    /\ [](last.op \in DOMAIN CoreOperations => last.raised = NoException)
    /\ [][(\/ last'.raised # NoException
            \/ (last'.op = "add_key_moment" /\ last'.res = FALSE))
           => sessions' = sessions]_vars

\* The keys of a list of cache entries.
KeysOf(entries) == {entries[i].key : i \in 1..Len(entries)}

\* The entries of the least timestamp.
OldestEntries(entries) ==
    {i \in 1..Len(entries) :
        \A j \in 1..Len(entries) : entries[i].timestamp <= entries[j].timestamp}

\* The entry of a key in a list of cache entries.
EntryOf(entries, cache_key) ==
    entries[CHOOSE i \in 1..Len(entries) : entries[i].key = cache_key]

\* C32: after every set_cached_response the cache holds at most max_size
\* entries, and a set on a full cache evicts an entry of the oldest
\* timestamp; get_cached_response returns an entry only when its age is
\* below ttl, and a lookup of an entry of age >= ttl returns nothing and
\* removes the entry.
C32_CacheBounded ==
    [][/\ (last'.op = "set_cached_response")
          => (/\ Len(cache') <= cache_config.max_size
              /\ (cache_config.enabled /\ Len(cache) >= cache_config.max_size)
                 => (\E i \in OldestEntries(cache) :
                       KeysOf(cache') = (KeysOf(cache) \ {cache[i].key}) \cup {last'.sid[1]})
              /\ cache_config.enabled
                 => (/\ last'.sid[1] \in KeysOf(cache')
                     /\ EntryOf(cache', last'.sid[1]).data = last'.sid[2]
                     /\ EntryOf(cache', last'.sid[1]).timestamp = now))
       /\ (last'.op = "get_cached_response")
          => (LET i == CacheIndex(last'.sid) IN
              /\ (last'.res # None)
                 => (/\ i # 0
                     /\ now - cache[i].timestamp < cache_config.ttl
                     /\ last'.res = Some(cache[i].data)
                     /\ cache' = cache)
              /\ (i # 0 /\ now - cache[i].timestamp >= cache_config.ttl)
                 => (/\ last'.res = None
                     /\ KeysOf(cache') = KeysOf(cache) \ {last'.sid}))]_vars

\* C32 witness: a set on a full cache of two entries of different age has
\* just evicted the older one.
C32_Witness ==
    /\ last.op = "set_cached_response"
    /\ cache_config.enabled
    /\ cache_config.max_size = 2
    /\ Len(cache) = 2
    /\ cache[1].timestamp < cache[2].timestamp
    /\ cache[2].timestamp = now
    /\ cache[2].key = last.sid[1]
    /\ KeysOf(cache) = {"q1:vue", "q2:all"}

\* C33: in every state the status column of a sessions row equals the
\* status inside the stored aggregate, and the last_used column equals the
\* last_used inside it.
C33_ColumnsMatchAggregate ==
    \A x \in DOMAIN sessions :
        /\ sessions[x].status = SessionStatus[Stored(x).status]
        /\ sessions[x].last_used = Stored(x).last_used

\* C34: after every successful add_message the message just added is the
\* last element of the stored window of the session, for every max_messages
\* and compression_threshold.
C34_NewestLast ==
    [][(last'.op = "add_message" /\ last'.res = TRUE)
       => LET messages == sessions'[last'.sid].data.messages IN
          /\ messages # <<>>
          /\ messages[Len(messages)].id = nextId]_vars

\* C35: a session that is active when cleanup_old_sessions starts is still
\* stored when the call returns, whatever its idle time and the threshold:
\* the sessions counted as deleted were archived before the call, none of
\* them is among those counted as archived.
C35_ActiveNotDeleted ==
    [][(last'.op = "cleanup_old_sessions")
       => /\ \A x \in DOMAIN sessions :
                sessions[x].status = SessionStatus.ACTIVE => x \in DOMAIN sessions'
          /\ last'.res[2] = Cardinality({x \in DOMAIN sessions \ DOMAIN sessions' :
                                            sessions[x].status = SessionStatus.ARCHIVED})]_vars

\* C36: compression evicts oldest first and periods do not overlap: in every
\* stored session each period ends no later than every message of the window
\* and no later than the next period starts, has start_time <= end_time and
\* counts between 1 and compression_threshold messages.
C36_PeriodsOrdered ==
    \A x \in DOMAIN sessions :
        LET history == Stored(x).compressed_history
            messages == Stored(x).messages
        IN  /\ \A i \in 1..Len(history) :
                  /\ history[i].start_time <= history[i].end_time
                  /\ history[i].message_count \in 1..compression_threshold
                  /\ \A m \in 1..Len(messages) :
                        history[i].end_time <= messages[m].timestamp
            /\ \A i \in 1..(Len(history) - 1) :
                  history[i].end_time <= history[i + 1].start_time

\* C36 witness: a session with two periods, the second of a later time than
\* the first, and a window whose first message is later than both.
C36_Witness ==
    \E x \in DOMAIN sessions :
        /\ Len(Stored(x).compressed_history) = 2
        /\ Stored(x).compressed_history[1].end_time
              < Stored(x).compressed_history[2].start_time
        /\ Stored(x).compressed_history[2].message_count = 1
        /\ Stored(x).messages # <<>>
        /\ Stored(x).compressed_history[2].end_time < Stored(x).messages[1].timestamp

\* C37: under every interleaving of the load and save steps of add_message
\* and add_key_moment calls on one session, every stored session has at most
\* max_messages messages and key moments sorted by importance descending,
\* then timestamp descending.
C37_RaceKeepsInvariants ==
    \A x \in DOMAIN sessions :
        /\ Len(Stored(x).messages) <= max_messages
        /\ KeyMomentsSorted(Stored(x).key_moments)

\* C37 witness: interleaved calls have lost a message (fewer messages are
\* accounted for than add_message calls succeeded) on a session with a full
\* window, a compressed period and two key moments of different importance.
C37_Witness ==
    \E x \in DOMAIN sessions :
        /\ calls = NoCalls
        /\ added[x] > Len(Stored(x).messages) + SumMessageCount(Stored(x).compressed_history)
        /\ Len(Stored(x).messages) = max_messages
        /\ Stored(x).compressed_history # <<>>
        /\ Len(Stored(x).key_moments) = 2
        /\ Stored(x).key_moments[1].importance > Stored(x).key_moments[2].importance

\* C38: in every state the file_snapshots table has at most one row per
\* (file_path, content_hash), also when two save_file_snapshot calls with
\* the same file_path and content both look for the row before either
\* inserts.
C38_OneRowPerContent ==
    \A i, j \in 1..Len(file_snapshots) :
        (/\ file_snapshots[i].file_path = file_snapshots[j].file_path
         /\ file_snapshots[i].content_hash = file_snapshots[j].content_hash)
        => i = j

\* A get_or_create_session step that returned an id returned the id of a
\* stored session: the given one when it is stored; else, when `lookup`
\* holds of the project name, a latest active session of the project; else a
\* new active session, of project 'anonymous' when the project name is empty.
\* Nothing is stored unless the session is new.
GetOrCreateReturns(lookup(_)) ==
    (last'.op = "get_or_create_session" /\ last'.res # NoId)
    => LET project_name == last'.sid[1]
           session_id == last'.sid[2]
           result == last'.res
       IN  /\ result \in DOMAIN sessions'
           /\ IF session_id \in DOMAIN sessions
              THEN result = session_id /\ sessions' = sessions
              ELSE IF lookup(project_name)
                   THEN result \in LatestSessions(project_name) /\ sessions' = sessions
                   ELSE /\ result \notin DOMAIN sessions
                        /\ DOMAIN sessions' = DOMAIN sessions \cup {result}
                        /\ \A x \in DOMAIN sessions : sessions'[x] = sessions[x]
                        /\ sessions'[result].status = SessionStatus.ACTIVE
                        /\ sessions'[result].project_name
                              = (IF project_name = "" THEN "anonymous" ELSE project_name)

\* Some active session of the project is stored.
HasActive(project_name) == LatestSessions(project_name) # {}

\* Some active session of the project is stored and the name is not empty.
NamedAndHasActive(project_name) == project_name # "" /\ HasActive(project_name)

\* C39 as stated: the latest active session of project_name is returned
\* whenever one exists and the given session is not stored.
C39_Original == [][GetOrCreateReturns(HasActive)]_vars

\* C39: get_or_create_session returns the given session_id when that session
\* is stored; otherwise, for a non-empty project_name, a latest active
\* session of the project if one exists; otherwise the id of a newly created
\* session, of project 'anonymous' when project_name is empty; the result is
\* the id of a stored session and nothing is created in the first two cases.
C39_GetOrCreate == [][GetOrCreateReturns(NamedAndHasActive)]_vars

\* C39 witness: a call that named a session that is not stored has returned
\* the older, already stored active session of its project.
C39_Witness ==
    /\ last.op = "get_or_create_session"
    /\ last.sid[1] = "p1"
    /\ last.sid[2] # NoId
    /\ last.sid[2] \notin DOMAIN sessions
    /\ last.res \in DOMAIN sessions
    /\ sessions[last.res].project_name = "p1"
    /\ sessions[last.res].created_at < now
    /\ Cardinality(DOMAIN sessions) = 2

====
